---- MODULE Spec2Model ----
(***************************************************************************)
(* Knoter trading engine: the live-trading gate of the venue broker, the   *)
(* order lifecycle manager, and the engine loop with its control surface.  *)
(* Prices are in units of 0.0001 dollars, PnL in hundredths of a percent.   *)
(***************************************************************************)
EXTENDS Integers, Sequences, FiniteSets, TLC

\* ------------------------------------------------------------------ bounds
MaxKalshiCalls == 3

MaxOrders == 4

MaxOrderSize == 2

MaxReplacements == 2

MaxCloseRequotes == 2

MaxTicks == 2

MaxHandlerCalls == 2

\* Direct calls made on a function or object in one behaviour.
MaxCalls == 4

\* Prices in a price window handed to decide_entry.
MaxHistory == 4

\* The fills fed to one call of compute_realized_pnl_pct.
MaxFills == 3

\* Largest trade_sizing.order_size tried against the exposure limit.
MaxLimitOrderSize == 3

\* --------------------------------------------------------------- constants
LIVE_CONFIRM == "ENABLE LIVE TRADING"

ConfirmValues == {"", "ENABLE LIVE TRADING", "enable live trading"}

TradingModes == {"paper", "live"}

EnvironmentLabels == {"demo", "live"}

TickerList == <<"MKT-A">>

Tickers == {TickerList[i] : i \in DOMAIN TickerList}

Sides == {"yes", "no"}

\* Prices are in units of 0.0001 dollars, the resolution the code rounds to.
Prices == {2000, 5000, 7000}

MIN_PRICE == 100

MAX_PRICE == 9900

\* EntryConfig.order_ttl_seconds default; the order-manager test runs with 0.
ORDER_TTL_SECONDS == 30

\* ExitConfig.close_slippage_pct default 0.4, in tenths of a percent.
CLOSE_SLIPPAGE_PCT == 4

ORDER_SIZE == 1

MAX_REPLACEMENTS == 2

MAX_CLOSE_REQUOTES == 2

\* A refreshed quote: "none" when the snapshot fetch failed, else valid or not.
NoQuote == [kind |-> "none", bid |-> 0, ask |-> 0]

InvalidQuote == [kind |-> "invalid", bid |-> 0, ask |-> 0]

\* The quote the markets trade at.
MarketQuote == [kind |-> "valid", bid |-> 4000, ask |-> 6000]

\* What _refresh_quote can come back with during an order attempt: the paper broker
\* always has a valid quote, the venue's may be invalid or the request may fail.
QuoteOutcomes(broker) ==
    IF broker = "paper" THEN {MarketQuote} ELSE {MarketQuote, InvalidQuote, NoQuote}

Min(a, b) == IF a <= b THEN a ELSE b

Max(a, b) == IF a >= b THEN a ELSE b

VARIABLES
    env_gate,           \* os.getenv("KNOTER_LIVE_TRADING_ENABLED") in {1,true,yes}
    environment_label,  \* KalshiClient.environment.name
    config,             \* state.config (the fields the engine reads)
    saved_config,       \* data/config.json as written by save_config
    kalshi_broker,      \* state.kalshi_broker gate fields
    order_manager,      \* state.order_manager: the broker it was built with
    venue_requests,     \* gate snapshots of the order requests that reached the venue client
    last_place,         \* outcome of the latest KalshiBroker.place_order call
    kalshi_calls,       \* number of direct KalshiBroker.place_order calls made
    om,                 \* the frame of the running place_with_ttl / close_with_limit call
    om_result,          \* what that call returned (OrderResult) or that it raised
    broker_orders,      \* the orders held by the brokers, indexed by order id
    db_orders,          \* storage: the orders table, by order id
    db_fills,           \* storage: the fills table, in insertion order
    running,            \* state.running
    killed,             \* state.killed
    kill_engaged,       \* the kill switch has been engaged since the process started
    orphans,            \* run_bot tasks still alive that state.task no longer refers to
    task,               \* state.task: the run_bot task and how it ended
    eng,                \* the frame of run_bot: where the tick is, its locals
    ticks,              \* number of ticks begun
    handler_calls,      \* number of control-surface requests served
    last_scan,          \* state.last_scan
    market_state,       \* state.market_state: last snapshot and cooldown per market
    positions,          \* state.positions, in insertion order
    risk,               \* state.risk.state (RiskState)
    trades_executed,    \* state.trades_executed
    db_decisions,       \* storage: the decision recorded last
    last_fill_ts_ms,    \* state.last_fill_ts_ms (0 is None)
    last_reconcile_ts,  \* state.last_reconcile_ts is set
    probe               \* the latest direct call of a pure function: its inputs and its answer

gateVars == <<env_gate, environment_label, probe, config, saved_config, kalshi_broker,
              order_manager, venue_requests, last_place, kalshi_calls>>

omVars == <<om, om_result, broker_orders, db_orders, db_fills>>

engVars == <<running, killed, kill_engaged, orphans, task, eng, ticks, handler_calls, last_scan, market_state,
             positions, trades_executed, db_decisions, last_fill_ts_ms, last_reconcile_ts>>

vars == <<gateVars, omVars, engVars, risk>>

\* ------------------------------------------------------- the live gate
\* KalshiBroker._ensure_live_gate: TRUE when it does not raise.
EnsureLiveGateNoLabel(eg, kb, label) ==
    ~(~eg \/ ~kb.live_gate_enabled \/ kb.live_confirm # LIVE_CONFIRM)

EnsureLiveGate(eg, kb, label) ==
    /\ ~(~eg \/ ~kb.live_gate_enabled \/ kb.live_confirm # LIVE_CONFIRM)
    /\ ~(label # "live")

GateSnapshot ==
    [env_gate |-> env_gate,
     live_gate_enabled |-> kalshi_broker.live_gate_enabled,
     live_confirm |-> kalshi_broker.live_confirm,
     environment |-> environment_label]

\* BotState.broker: which broker the property returns for a config.
Broker(cfg) ==
    IF /\ cfg.trading_mode = "live"
       /\ cfg.live_trading_enabled
       /\ cfg.live_confirm = LIVE_CONFIRM
    THEN "kalshi" ELSE "paper"

\* load_config: the file's config with live_trading_enabled taken from the environment.
LoadConfig(file, eg) ==
    [file EXCEPT !.live_trading_enabled = eg]

\* OrderManager(state.broker, state.config)
NewOrderManager(cfg) ==
    [broker |-> Broker(cfg), config |-> cfg]

\* RiskState(): the state of a new RiskManager.
NewRiskState ==
    [consecutive_losses |-> 0, event_pnl_pct |-> 0, session_pnl_pct |-> 0,
     exposure_contracts |-> 0, exposure_dollars |-> 0, active_positions |-> 0,
     trade_history |-> <<>>, last_trade_time |-> FALSE]

\* update_config lines 108-122: the payload merged into the config. A payload field of
\* "keep" is a key the payload does not carry.
MergedConfig(p_mode, p_confirm, p_kill) ==
    [config EXCEPT
       !.trading_mode = IF p_mode = "keep" THEN @ ELSE p_mode,
       !.kill_switch = IF p_kill = "keep" THEN @ ELSE (p_kill = "on"),
       !.live_trading_enabled = config.live_trading_enabled,
       !.live_confirm = IF p_confirm = "keep" THEN @ ELSE p_confirm]

\* update_config lines 123-129: the request is answered with HTTP 400.
ConfigRejected(merged) ==
    /\ merged.trading_mode = "live"
    /\ \/ ~merged.live_trading_enabled
       \/ merged.live_confirm # LIVE_CONFIRM
       \/ environment_label # "live"

\* POST /config with a refused live request turned into paper mode and applied.
UpdateConfigDowngrade(p_mode, p_confirm, p_kill) ==
    LET asked == MergedConfig(p_mode, p_confirm, p_kill)
        merged == IF ConfigRejected(asked) THEN [asked EXCEPT !.trading_mode = "paper"] ELSE asked
    IN  /\ config' = merged
        /\ risk' = NewRiskState
        /\ kalshi_broker' = [live_gate_enabled |-> merged.live_trading_enabled,
                             live_confirm |-> merged.live_confirm]
        /\ order_manager' = NewOrderManager(merged)
        /\ saved_config' = merged

\* POST /config
UpdateConfig(p_mode, p_confirm, p_kill) ==
    LET merged == MergedConfig(p_mode, p_confirm, p_kill)
    IN  IF ConfigRejected(merged)
        THEN UNCHANGED <<config, saved_config, kalshi_broker, order_manager, risk>>
        ELSE /\ config' = merged
             /\ risk' = NewRiskState
             /\ kalshi_broker' = [live_gate_enabled |-> merged.live_trading_enabled,
                                  live_confirm |-> merged.live_confirm]
             /\ order_manager' = NewOrderManager(merged)
             /\ saved_config' = merged

\* KalshiBroker.place_order up to client.place_order: the gate, then the request.
KalshiGateEffect(sent) ==
    /\ venue_requests' = IF sent THEN venue_requests \cup {GateSnapshot} ELSE venue_requests
    /\ last_place' = [outcome |-> IF sent THEN "sent" ELSE "raised", gate |-> GateSnapshot]

\* KalshiBroker.place_order called by any holder of the venue broker.
KalshiPlaceOrder ==
    /\ kalshi_calls < MaxKalshiCalls
    /\ kalshi_calls' = kalshi_calls + 1
    /\ KalshiGateEffect(EnsureLiveGate(env_gate, kalshi_broker, environment_label))

\* ------------------------------------------------------------ the brokers
\* What a place_order call can come back with. kind "raise" is an exception,
\* kind "order" a response {order_id, status, filled_qty, avg_fill_price};
\* avg_fill_price 0 is an absent (None) value.
RaiseOutcome == [kind |-> "raise", status |-> "none", filled_qty |-> 0, avg_fill_price |-> 0]

\* PaperBroker.place_order: always filled in full at the limit price.
PaperPlaceOutcomes(price, qty) ==
    {[kind |-> "order", status |-> "filled", filled_qty |-> qty, avg_fill_price |-> price]}

\* KalshiClient._validate_order_payload: the price bounds (0.01 .. 0.99 dollars).
ValidOrderPayload(price, qty) ==
    /\ qty > 0
    /\ MIN_PRICE <= price
    /\ price <= MAX_PRICE

\* The venue behind KalshiClient.place_order: the request fails, or an order comes
\* back resting (open, possibly partly filled) or filled.
VenuePlaceOutcomes(price, qty) ==
    {RaiseOutcome}
    \cup {[kind |-> "order", status |-> "open", filled_qty |-> 0, avg_fill_price |-> 0]}
    \cup {[kind |-> "order", status |-> "open", filled_qty |-> f, avg_fill_price |-> price] :
            f \in 1..(qty - 1)}
    \cup {[kind |-> "order", status |-> "filled", filled_qty |-> qty, avg_fill_price |-> a] :
            a \in {0, price}}

\* TRUE when KalshiBroker.place_order gets as far as client.place_order's request.
KalshiSends(price, qty) ==
    /\ EnsureLiveGate(env_gate, kalshi_broker, environment_label)
    /\ ValidOrderPayload(price, qty)

KalshiPlaceOutcomes(price, qty) ==
    IF KalshiSends(price, qty) THEN VenuePlaceOutcomes(price, qty) ELSE {RaiseOutcome}

BrokerPlaceOutcomes(broker, price, qty) ==
    IF broker = "paper" THEN PaperPlaceOutcomes(price, qty) ELSE KalshiPlaceOutcomes(price, qty)

\* cancel_order: the paper broker always cancels, the venue request may fail.
BrokerCancelOutcomes(broker) ==
    IF broker = "paper" THEN {"cancelled"} ELSE {"cancelled", "raise"}

\* An order as the broker holds it; cancels counts the cancel_order calls made for it.
NewBrokerOrder(broker, ticker, action, side, price, qty, out) ==
    [broker |-> broker, ticker |-> ticker, action |-> action, side |-> side,
     price |-> price, qty |-> qty, status |-> out.status, filled_qty |-> out.filled_qty,
     cancels |-> 0]

\* ------------------------------------------------------ the order manager
IdleFrame ==
    [op |-> "idle", pc |-> "idle", caller |-> "none", broker |-> "paper",
     max_steps |-> 0, ttl |-> 0, step_pct |-> 0,
     ticker |-> "none", action |-> "none", side |-> "none",
     price |-> 0, remaining_qty |-> 0, attempt |-> 0,
     order_id |-> 0, status |-> "open", filled_qty |-> 0, avg_fill_price |-> 0,
     quote |-> NoQuote, submitted |-> {}, responses |-> <<>>, cancel_calls |-> <<>>, place_calls |-> 0]

NoResult == [outcome |-> "none", order_id |-> 0, status |-> "none", filled_qty |-> 0, avg_fill_price |-> 0]

RaisedResult == [outcome |-> "raised", order_id |-> 0, status |-> "none", filled_qty |-> 0, avg_fill_price |-> 0]

OrderResult(order_id, status, filled_qty, avg_fill_price) ==
    [outcome |-> "returned", order_id |-> order_id, status |-> status,
     filled_qty |-> filled_qty, avg_fill_price |-> avg_fill_price]

\* OrderManager.place_with_ttl, lines 67-71: the call's locals.
BeginPlaceWithTtl(caller, mgr, ticker, action, side, price) ==
    /\ om' = [IdleFrame EXCEPT
                !.op = "place_with_ttl", !.pc = "quote", !.caller = caller,
                !.broker = mgr.broker,
                !.max_steps = mgr.config.max_replacements,
                !.ttl = mgr.config.order_ttl_seconds,
                !.ticker = ticker, !.action = action, !.side = side, !.price = price,
                !.remaining_qty = mgr.config.order_size]
    /\ om_result' = NoResult

\* OrderManager.close_with_limit, lines 132-137: the call's locals.
BeginCloseWithLimit(caller, mgr, ticker, side, bid, ask, qty) ==
    /\ om' = [IdleFrame EXCEPT
                !.op = "close_with_limit", !.pc = "quote", !.caller = caller,
                !.broker = mgr.broker,
                !.max_steps = mgr.config.max_close_requotes,
                !.step_pct = mgr.config.close_slippage_pct,
                !.ticker = ticker, !.action = "sell", !.side = side,
                !.price = IF side = "yes" THEN bid ELSE ask,
                !.remaining_qty = qty]
    /\ om_result' = NoResult

\* step = base_price * (step_pct / 100) * attempt, step_pct in tenths of a percent.
WalkStep(base, step_pct, attempt) ==
    (base * step_pct * attempt) \div 1000

\* _refresh_quote and the price it leads to: the clamp of place_with_ttl (lines 73-78),
\* the walked price of close_with_limit (lines 139-143).
QuotedPrice(f, q) ==
    IF q.kind # "valid" THEN f.price
    ELSE IF f.op = "place_with_ttl"
         THEN IF f.action = "buy" THEN Min(f.price, q.ask) ELSE Max(f.price, q.bid)
         ELSE LET base == IF f.side = "yes" THEN q.bid ELSE q.ask
                  step == WalkStep(base, f.step_pct, f.attempt)
              IN  IF f.side = "yes" THEN base - step ELSE base + step

OMRefreshQuote ==
    /\ om.pc = "quote"
    /\ \E q \in QuoteOutcomes(om.broker) :
          om' = [om EXCEPT !.quote = q, !.price = QuotedPrice(om, q), !.pc = "place"]
    /\ UNCHANGED <<om_result, broker_orders, db_orders, db_fills>>
    /\ UNCHANGED <<venue_requests, last_place>>

\* broker.place_order and the reading of its response (lines 80-91, 144-150). An
\* exception leaves the call at once: neither loop has a handler around it.
OMPlaceOrder ==
    /\ om.pc = "place"
    /\ Len(broker_orders) < MaxOrders
    /\ \E out \in BrokerPlaceOutcomes(om.broker, om.price, om.remaining_qty) :
          /\ IF om.broker = "kalshi"
             THEN KalshiGateEffect(KalshiSends(om.price, om.remaining_qty))
             ELSE UNCHANGED <<venue_requests, last_place>>
          /\ IF out.kind = "raise"
             THEN /\ om' = [om EXCEPT !.pc = "raised", !.place_calls = @ + 1]
                  /\ om_result' = RaisedResult
                  /\ UNCHANGED broker_orders
             ELSE LET id == Len(broker_orders) + 1
                  IN  /\ broker_orders' = Append(broker_orders,
                            NewBrokerOrder(om.broker, om.ticker, om.action, om.side,
                                           om.price, om.remaining_qty, out))
                      /\ om' = [om EXCEPT !.pc = "record", !.place_calls = @ + 1,
                                          !.order_id = id, !.status = out.status,
                                          !.filled_qty = out.filled_qty,
                                          !.avg_fill_price = out.avg_fill_price,
                                          !.submitted = @ \cup {id},
                                          !.responses = Append(@, <<out.status, out.filled_qty>>)]
                      /\ UNCHANGED om_result
    /\ UNCHANGED <<db_orders, db_fills>>

\* storage.upsert_order: insert or replace by order id.
UpsertOrder(orders, id, rec) ==
    [o \in (DOMAIN orders) \cup {id} |-> IF o = id THEN rec ELSE orders[o]]

\* A log_fill that writes no row.
LogFillSkipped(fills, order_id, ticker, action, side, price, qty) ==
    fills

\* storage.log_fill: a plain INSERT, the row id is the position in the table.
LogFill(fills, order_id, ticker, action, side, price, qty) ==
    Append(fills, [order_id |-> order_id, market_id |-> ticker, action |-> action,
                   side |-> side, price |-> price, qty |-> qty])

\* remaining_qty = max(remaining_qty - filled_qty, 0)
RemainingAfterStuck(remaining_qty, filled_qty) ==
    remaining_qty

RemainingAfter(remaining_qty, filled_qty) ==
    Max(remaining_qty - filled_qty, 0)

\* The attempt that ends `for attempt in range(max_steps + 1)`.
LastAttemptOneMore(attempt, max_steps) ==
    attempt > max_steps

LastAttempt(attempt, max_steps) ==
    attempt >= max_steps

\* `avg_fill_price or price`
OrElse(a, b) == IF a # 0 THEN a ELSE b

\* The rest of one attempt up to the wait or the requote: upsert_order, log_fill,
\* remaining quantity, the early return (lines 93-114 and 151-175).
OMRecord ==
    /\ om.pc = "record"
    /\ db_orders' = UpsertOrder(db_orders, om.order_id,
                        [market_id |-> om.ticker, action |-> om.action, side |-> om.side,
                         price |-> om.price, qty |-> om.remaining_qty, status |-> om.status])
    /\ LET remaining == IF om.filled_qty # 0
                        THEN RemainingAfter(om.remaining_qty, om.filled_qty)
                        ELSE om.remaining_qty
           done == om.filled_qty # 0 /\ remaining = 0
       IN  /\ db_fills' = IF om.filled_qty # 0
                          THEN LogFill(db_fills, om.order_id, om.ticker, om.action, om.side,
                                       OrElse(om.avg_fill_price, om.price), om.filled_qty)
                          ELSE db_fills
           /\ IF done
              THEN /\ om' = [om EXCEPT !.remaining_qty = remaining, !.pc = "returned"]
                   /\ om_result' = OrderResult(om.order_id, "filled", om.filled_qty, om.avg_fill_price)
              ELSE IF om.op = "place_with_ttl"
              THEN /\ om' = [om EXCEPT !.remaining_qty = remaining,
                                       !.pc = IF om.attempt < om.max_steps /\ om.ttl > 0
                                              THEN "sleep" ELSE "cancel"]
                   /\ UNCHANGED om_result
              ELSE IF LastAttempt(om.attempt, om.max_steps)
              THEN /\ om' = [om EXCEPT !.remaining_qty = remaining, !.pc = "returned"]
                   /\ om_result' = OrderResult(om.order_id, om.status, om.filled_qty, om.avg_fill_price)
              ELSE /\ om' = [om EXCEPT
                               !.remaining_qty = remaining,
                               !.price = IF om.quote.kind = "none"
                                         THEN IF om.side = "yes"
                                              THEN @ - WalkStep(@, om.step_pct, 1)
                                              ELSE @ + WalkStep(@, om.step_pct, 1)
                                         ELSE @,
                               !.attempt = @ + 1,
                               !.pc = "quote"]
                   /\ UNCHANGED om_result
    /\ UNCHANGED broker_orders
    /\ UNCHANGED <<venue_requests, last_place>>

\* await asyncio.sleep(order_ttl_seconds) is over (line 114).
OMWake ==
    /\ om.pc = "sleep"
    /\ om' = [om EXCEPT !.pc = "cancel"]
    /\ UNCHANGED <<om_result, broker_orders, db_orders, db_fills>>
    /\ UNCHANGED <<venue_requests, last_place>>

\* PaperBroker.cancel_order / the venue's DELETE: the order becomes cancelled.
CancelAtBroker(orders, id) ==
    [orders EXCEPT ![id].status = "cancelled", ![id].cancels = @ + 1]

\* self.broker.cancel_order(order_id), then the next attempt or the final return
\* (lines 115-116).
OMCancel ==
    /\ om.pc = "cancel"
    /\ \E out \in BrokerCancelOutcomes(om.broker) :
          IF out = "raise"
          THEN /\ om' = [om EXCEPT !.cancel_calls = Append(@, om.order_id), !.pc = "raised"]
               /\ om_result' = RaisedResult
               /\ broker_orders' = [broker_orders EXCEPT ![om.order_id].cancels = @ + 1]
          ELSE /\ broker_orders' = CancelAtBroker(broker_orders, om.order_id)
               /\ IF LastAttempt(om.attempt, om.max_steps)
                  THEN /\ om' = [om EXCEPT !.cancel_calls = Append(@, om.order_id),
                                           !.attempt = @ + 1, !.pc = "returned"]
                       /\ om_result' = OrderResult(om.order_id, om.status, om.filled_qty,
                                                   om.avg_fill_price)
                  ELSE /\ om' = [om EXCEPT !.cancel_calls = Append(@, om.order_id),
                                           !.attempt = @ + 1, !.pc = "quote"]
                       /\ UNCHANGED om_result
    /\ UNCHANGED <<db_orders, db_fills>>
    /\ UNCHANGED <<venue_requests, last_place>>

\* -------------------------------------------------------------- the engine
TAKE_PROFIT_PCT == 400

STOP_LOSS_PCT == 300

TRAIL_START_PCT == 200

TRAIL_GAP_PCT == 100

ENTRY_EDGE_PCT == 3

MAX_EXPOSURE_CONTRACTS == 4

MAX_EXPOSURE_DOLLARS == 4000000

MAX_CONCURRENT_POSITIONS == 2

MAX_TRADES_PER_EVENT == 6

MAX_CONSECUTIVE_LOSSES == 2

MAX_EVENT_LOSS_PCT == 500

MAX_SESSION_LOSS_PCT == 800

\* trail_stop_pct = None
NoTrail == -100000

\* BotConfig(): the defaults.
DefaultConfig ==
    [trading_mode |-> "paper", live_trading_enabled |-> FALSE, live_confirm |-> "",
     kill_switch |-> FALSE, order_size |-> ORDER_SIZE, max_replacements |-> MAX_REPLACEMENTS,
     max_close_requotes |-> MAX_CLOSE_REQUOTES, order_ttl_seconds |-> ORDER_TTL_SECONDS,
     close_slippage_pct |-> CLOSE_SLIPPAGE_PCT]

\* The locals of run_bot and of the tick function it is in.
NoFrame ==
    [pc |-> "none", idx |-> 0, risk_allows |-> FALSE, risk_reason |-> "none",
     held |-> {}, selections |-> <<>>, mgr |-> NewOrderManager(DefaultConfig),
     action |-> "none", reason_code |-> "none", side |-> "none", price |-> 0]

NoSnapshot ==
    [market_id |-> "none", kind |-> "none", bid |-> 0, ask |-> 0, qualifies |-> FALSE]

\* MarketSnapshot of a valid quote; mid_price = (bid + ask) / 2.
Snapshot(t, q, qualifies) ==
    [market_id |-> t, kind |-> "valid", bid |-> q.bid, ask |-> q.ask, qualifies |-> qualifies]

MidPrice(snap) == (snap.bid + snap.ask) \div 2

\* MarketState(): no snapshot, no cooldown.
NewMarketState == [last_snapshot |-> NoSnapshot, cooldown_until |-> FALSE]

NoScan == [present |-> FALSE, markets |-> <<>>]

Abs(x) == IF x < 0 THEN -x ELSE x

\* a / b rounded to the nearest integer, b > 0.
RoundDiv(a, b) == (2 * a + b) \div (2 * b)

\* compute_pnl_pct, in hundredths of a percent.
ComputePnlPct(entry_price, current_price, side) ==
    IF entry_price <= 0 THEN 0
    ELSE LET raw == RoundDiv((current_price - entry_price) * 10000, entry_price)
         IN  IF side = "yes" THEN raw ELSE -raw

\* RiskManager.record_trade without the reset of the streak on a win.
RecordTradeNoReset(r, pnl_pct) ==
    [r EXCEPT !.trade_history = Append(@, pnl_pct),
              !.session_pnl_pct = @ + pnl_pct,
              !.event_pnl_pct = @ + pnl_pct,
              !.consecutive_losses = IF pnl_pct < 0 THEN @ + 1 ELSE @,
              !.last_trade_time = TRUE]

\* RiskManager.record_trade
RecordTrade(r, pnl_pct) ==
    [r EXCEPT !.trade_history = Append(@, pnl_pct),
              !.session_pnl_pct = @ + pnl_pct,
              !.event_pnl_pct = @ + pnl_pct,
              !.consecutive_losses = IF pnl_pct < 0 THEN @ + 1 ELSE 0,
              !.last_trade_time = TRUE]

\* RiskManager.can_trade with the streak test ahead of the exposure tests.
CanTradeStreakFirst(cfg, r, in_cooldown) ==
    IF cfg.kill_switch THEN <<FALSE, "Kill switch active">>
    ELSE IF r.consecutive_losses >= MAX_CONSECUTIVE_LOSSES
    THEN <<FALSE, "Loss streak limit reached">>
    ELSE IF r.exposure_contracts >= MAX_EXPOSURE_CONTRACTS
    THEN <<FALSE, "Exposure contracts limit reached">>
    ELSE IF r.exposure_dollars >= MAX_EXPOSURE_DOLLARS
    THEN <<FALSE, "Exposure dollars limit reached">>
    ELSE IF r.active_positions >= MAX_CONCURRENT_POSITIONS
    THEN <<FALSE, "Max concurrent positions reached">>
    ELSE IF Abs(r.event_pnl_pct) >= MAX_EVENT_LOSS_PCT
    THEN <<FALSE, "Event loss cap reached">>
    ELSE IF Abs(r.session_pnl_pct) >= MAX_SESSION_LOSS_PCT
    THEN <<FALSE, "Session loss cap reached">>
    ELSE IF in_cooldown THEN <<FALSE, "Cooldown active">>
    ELSE <<TRUE, "Ok">>

\* RiskManager.can_trade: <<allowed, reason>>. in_cooldown is in_cooldown()'s answer.
CanTrade(cfg, r, in_cooldown) ==
    IF cfg.kill_switch THEN <<FALSE, "Kill switch active">>
    ELSE IF r.exposure_contracts >= MAX_EXPOSURE_CONTRACTS
    THEN <<FALSE, "Exposure contracts limit reached">>
    ELSE IF r.exposure_dollars >= MAX_EXPOSURE_DOLLARS
    THEN <<FALSE, "Exposure dollars limit reached">>
    ELSE IF r.active_positions >= MAX_CONCURRENT_POSITIONS
    THEN <<FALSE, "Max concurrent positions reached">>
    ELSE IF r.consecutive_losses >= MAX_CONSECUTIVE_LOSSES
    THEN <<FALSE, "Loss streak limit reached">>
    ELSE IF Abs(r.event_pnl_pct) >= MAX_EVENT_LOSS_PCT
    THEN <<FALSE, "Event loss cap reached">>
    ELSE IF Abs(r.session_pnl_pct) >= MAX_SESSION_LOSS_PCT
    THEN <<FALSE, "Session loss cap reached">>
    ELSE IF in_cooldown THEN <<FALSE, "Cooldown active">>
    ELSE <<TRUE, "Ok">>

\* What the price history says to decide_entry: too short, or the sign of the momentum
\* against the threshold.
Momentums == {"short", "flat", "up", "down"}

SkipDecision(reason) ==
    [action |-> "SKIP", side |-> "none", price |-> 0, reason_code |-> reason]

\* The no-side quote of a snapshot: the complement of the yes side.
NoBid(snap) == 10000 - snap.ask

NoAsk(snap) == 10000 - snap.bid

\* decide_entry lines 74-84: the limit price of an entry on a side; mid_now is the
\* latest price of the window, entry_edge_pct is in tenths of a percent.
EntryPrice(entry_edge_pct, side, mid_now, snap) ==
    LET edge_base == IF side = "yes" THEN mid_now ELSE Max(0, Min(10000, 10000 - mid_now))
        edge == (edge_base * entry_edge_pct) \div 1000
        no_ask == NoAsk(snap)
        price == IF side = "yes" THEN Min(snap.ask, mid_now - edge)
                 ELSE Min(no_ask, edge_base - edge)
    IN  Max(MIN_PRICE, Min(price, MAX_PRICE))

\* decide_entry without its risk check.
DecideEntryNoRisk(entry_edge_pct, momentum, edge_ok, mid_now, snap, risk_allows, in_cooldown) ==
    IF in_cooldown THEN SkipDecision("SKIP_COOLDOWN")
    ELSE IF momentum = "short" THEN SkipDecision("SKIP_HISTORY")
    ELSE IF momentum = "flat" THEN SkipDecision("SKIP_MOMENTUM")
    ELSE IF ~edge_ok THEN SkipDecision("SKIP_EDGE")
    ELSE LET side == IF momentum = "up" THEN "yes" ELSE "no"
         IN  IF side = "no" /\ (NoBid(snap) <= 0 \/ NoAsk(snap) <= 0)
             THEN SkipDecision("SKIP_NO_QUOTE")
             ELSE [action |-> "ENTER", side |-> side, price |-> EntryPrice(entry_edge_pct, side, mid_now, snap),
                   reason_code |-> IF side = "yes" THEN "ENTER_LONG" ELSE "ENTER_SHORT"]

\* decide_entry
DecideEntry(entry_edge_pct, momentum, edge_ok, mid_now, snap, risk_allows, in_cooldown) ==
    IF in_cooldown THEN SkipDecision("SKIP_COOLDOWN")
    ELSE IF ~risk_allows THEN SkipDecision("SKIP_RISK")
    ELSE IF momentum = "short" THEN SkipDecision("SKIP_HISTORY")
    ELSE IF momentum = "flat" THEN SkipDecision("SKIP_MOMENTUM")
    ELSE IF ~edge_ok THEN SkipDecision("SKIP_EDGE")
    ELSE LET side == IF momentum = "up" THEN "yes" ELSE "no"
         IN  IF side = "no" /\ (NoBid(snap) <= 0 \/ NoAsk(snap) <= 0)
             THEN SkipDecision("SKIP_NO_QUOTE")
             ELSE [action |-> "ENTER", side |-> side, price |-> EntryPrice(entry_edge_pct, side, mid_now, snap),
                   reason_code |-> IF side = "yes" THEN "ENTER_LONG" ELSE "ENTER_SHORT"]

\* `trailing_stop_pct or -100.0`
TrailOr(t) == IF t = NoTrail \/ t = 0 THEN -10000 ELSE t

\* ExitConfig(): the thresholds of the defaults, in hundredths of a percent.
DefaultExit ==
    [take_profit_pct |-> TAKE_PROFIT_PCT, stop_loss_pct |-> STOP_LOSS_PCT,
     trail_start_pct |-> TRAIL_START_PCT, trail_gap_pct |-> TRAIL_GAP_PCT]

\* decide_exit with the stop-loss test ahead of the take-profit test.
DecideExitStopFirst(cfg, entry_price, current_price, side, hold_expired, late, peak_pnl_pct, trailing_stop_pct) ==
    LET pnl_pct == ComputePnlPct(entry_price, current_price, side)
        new_peak == Max(peak_pnl_pct, pnl_pct)
        trailed == Max(TrailOr(trailing_stop_pct), new_peak - cfg.trail_gap_pct)
        out(action, reason, trail) ==
            [action |-> action, reason_code |-> reason, new_peak |-> new_peak, trail_stop |-> trail]
    IN  IF pnl_pct <= -cfg.stop_loss_pct THEN out("STOP_LOSS", "EXIT_SL", trailing_stop_pct)
        ELSE IF pnl_pct >= cfg.take_profit_pct THEN out("TAKE_PROFIT", "EXIT_TP", trailing_stop_pct)
        ELSE IF hold_expired THEN out("TIME_EXIT", "EXIT_TIME", trailing_stop_pct)
        ELSE IF late THEN out("LATE_EXIT", "EXIT_LATE", trailing_stop_pct)
        ELSE IF pnl_pct >= cfg.trail_start_pct /\ pnl_pct <= trailed
        THEN out("TRAIL_STOP", "EXIT_TRAIL", trailed)
        ELSE out("HOLD", "HOLD",
                 IF pnl_pct >= cfg.trail_start_pct THEN trailed ELSE trailing_stop_pct)

\* decide_exit with the peak taken from the current PnL alone.
DecideExitPeakNow(cfg, entry_price, current_price, side, hold_expired, late, peak_pnl_pct, trailing_stop_pct) ==
    LET pnl_pct == ComputePnlPct(entry_price, current_price, side)
        new_peak == pnl_pct
        trailed == Max(TrailOr(trailing_stop_pct), new_peak - cfg.trail_gap_pct)
        out(action, reason, trail) ==
            [action |-> action, reason_code |-> reason, new_peak |-> new_peak, trail_stop |-> trail]
    IN  IF pnl_pct >= cfg.take_profit_pct THEN out("TAKE_PROFIT", "EXIT_TP", trailing_stop_pct)
        ELSE IF pnl_pct <= -cfg.stop_loss_pct THEN out("STOP_LOSS", "EXIT_SL", trailing_stop_pct)
        ELSE IF hold_expired THEN out("TIME_EXIT", "EXIT_TIME", trailing_stop_pct)
        ELSE IF late THEN out("LATE_EXIT", "EXIT_LATE", trailing_stop_pct)
        ELSE IF pnl_pct >= cfg.trail_start_pct /\ pnl_pct <= trailed
        THEN out("TRAIL_STOP", "EXIT_TRAIL", trailed)
        ELSE out("HOLD", "HOLD",
                 IF pnl_pct >= cfg.trail_start_pct THEN trailed ELSE trailing_stop_pct)

\* decide_exit: [action, reason_code, new_peak, trail_stop]. cfg is the ExitConfig;
\* hold_expired and late are the answers of the two clock comparisons.
DecideExit(cfg, entry_price, current_price, side, hold_expired, late, peak_pnl_pct, trailing_stop_pct) ==
    LET pnl_pct == ComputePnlPct(entry_price, current_price, side)
        new_peak == Max(peak_pnl_pct, pnl_pct)
        trailed == Max(TrailOr(trailing_stop_pct), new_peak - cfg.trail_gap_pct)
        out(action, reason, trail) ==
            [action |-> action, reason_code |-> reason, new_peak |-> new_peak, trail_stop |-> trail]
    IN  IF pnl_pct >= cfg.take_profit_pct THEN out("TAKE_PROFIT", "EXIT_TP", trailing_stop_pct)
        ELSE IF pnl_pct <= -cfg.stop_loss_pct THEN out("STOP_LOSS", "EXIT_SL", trailing_stop_pct)
        ELSE IF hold_expired THEN out("TIME_EXIT", "EXIT_TIME", trailing_stop_pct)
        ELSE IF late THEN out("LATE_EXIT", "EXIT_LATE", trailing_stop_pct)
        ELSE IF pnl_pct >= cfg.trail_start_pct /\ pnl_pct <= trailed
        THEN out("TRAIL_STOP", "EXIT_TRAIL", trailed)
        ELSE out("HOLD", "HOLD",
                 IF pnl_pct >= cfg.trail_start_pct THEN trailed ELSE trailing_stop_pct)

\* Position(...) as maybe_open_trade and reconcile_broker_state build it. created_qty,
\* closes and recorded keep history: the qty at creation, the number of times it was
\* closed, the number of record_trade calls made with its PnL.
NewPosition(order_id, market_id, side, qty, entry_price) ==
    [position_id |-> [order_id |-> order_id, market_id |-> IF order_id = 0 THEN market_id ELSE ""],
     market_id |-> market_id, side |-> side, qty |-> qty,
     entry_price |-> entry_price, current_price |-> entry_price,
     pnl_pct |-> 0, peak_pnl_pct |-> 0, trail_stop_pct |-> NoTrail,
     status |-> "open", created_qty |-> qty, closes |-> 0, recorded |-> 0]

OpenPositions == SelectSeq(positions, LAMBDA p : p.status = "open")

RECURSIVE ExposureQty(_)
\* sum(pos.qty for pos in positions)
ExposureQty(seq) ==
    IF seq = <<>> THEN 0 ELSE Head(seq).qty + ExposureQty(Tail(seq))

RECURSIVE ExposureNotional(_)
\* sum(pos.entry_price * pos.qty for pos in positions)
ExposureNotional(seq) ==
    IF seq = <<>> THEN 0 ELSE Head(seq).entry_price * Head(seq).qty + ExposureNotional(Tail(seq))

\* The open orders a broker holds, oldest first.
OpenOrderIds(broker) ==
    SelectSeq([i \in 1..Len(broker_orders) |-> i],
              LAMBDA i : broker_orders[i].broker = broker /\ broker_orders[i].status = "open")

\* `try: for order in get_open_orders(): cancel_order(order_id)` with one except
\* around the loop: k.calls cancel_order calls were made, and when k.failed the last
\* of them raised (with no call made, get_open_orders did) and ended the loop.
CancelFirst(orders, ids, k) ==
    [i \in 1..Len(orders) |->
        IF \E j \in 1..k.calls : ids[j] = i
        THEN IF k.failed /\ ids[k.calls] = i
             THEN [orders[i] EXCEPT !.cancels = @ + 1]
             ELSE [orders[i] EXCEPT !.status = "cancelled", !.cancels = @ + 1]
        ELSE orders[i]]

\* How far the loop can get: through every open order, or to the venue request that
\* fails.
CancelCounts(broker) ==
    LET n == Len(OpenOrderIds(broker))
    IN  IF broker = "paper" THEN {[calls |-> n, failed |-> FALSE]}
        ELSE {[calls |-> n, failed |-> FALSE]} \cup {[calls |-> c, failed |-> TRUE] : c \in 0..n}

\* No direct call has been made.
NoProbe == [fn |-> "none", n |-> 0]

\* Everything run_bot's own steps leave alone.
envVars == <<env_gate, environment_label, probe, kalshi_calls, handler_calls>>

cfgState == <<config, saved_config, kalshi_broker, order_manager>>

\* The task ends with the exception that reached run_bot.
TaskCrashed ==
    /\ task' = "crashed"
    /\ eng' = NoFrame

\* run_bot lines 379-383: the loop test, the killed test, handle_kill_switch.
TickBegin ==
    /\ task = "alive"
    /\ eng.pc \in {"head", "sleep"}
    /\ (running /\ ~killed) => ticks < MaxTicks
    /\ IF ~running \/ killed
       THEN /\ running' = FALSE
            /\ task' = "finished"
            /\ eng' = NoFrame
            /\ UNCHANGED <<killed, kill_engaged, orphans, ticks, broker_orders>>
       ELSE /\ ticks' = ticks + 1
            /\ eng' = [NoFrame EXCEPT !.pc = "scan"]
            /\ UNCHANGED task
            /\ IF config.kill_switch
               THEN /\ \E k \in CancelCounts(Broker(config)) :
                         broker_orders' = CancelFirst(broker_orders, OpenOrderIds(Broker(config)), k)
                    /\ running' = FALSE
                    /\ killed' = TRUE
                    /\ kill_engaged' = TRUE
                    /\ UNCHANGED orphans
               ELSE UNCHANGED <<broker_orders, running, killed, kill_engaged, orphans>>
    /\ UNCHANGED <<envVars, cfgState, venue_requests, last_place, om, om_result, db_orders, db_fills>>
    /\ UNCHANGED <<last_scan, market_state, positions, risk, trades_executed, db_decisions,
                   last_fill_ts_ms, last_reconcile_ts>>

\* The snapshots a scan can make of a market: it qualifies or it does not.
SnapshotChoices(t) ==
    {Snapshot(t, MarketQuote, qualifies) : qualifies \in BOOLEAN}

AllSnapshots == UNION {SnapshotChoices(t) : t \in Tickers}

\* What one scan can put in last_scan.markets: the snapshots of the listed markets whose
\* quote came back valid, at most one per market, in the order of their scores.
ScanLists ==
    {<<>>} \cup {<<a>> : a \in AllSnapshots}
    \cup {pair \in AllSnapshots \X AllSnapshots : pair[1].market_id # pair[2].market_id}

\* scan_markets. list_markets is called outside any handler: when the venue request
\* fails the exception leaves scan_markets and run_bot.
ScanMarkets ==
    /\ eng.pc = "scan"
    /\ \/ /\ Broker(config) = "kalshi"
          /\ TaskCrashed
          /\ UNCHANGED <<last_scan, market_state>>
       \/ /\ \E markets \in ScanLists :
               /\ last_scan' = [present |-> TRUE, markets |-> markets]
               /\ market_state' =
                     [t \in Tickers |->
                        IF \E i \in 1..Len(markets) : markets[i].market_id = t
                        THEN [market_state[t] EXCEPT !.last_snapshot =
                                 markets[CHOOSE i \in 1..Len(markets) : markets[i].market_id = t]]
                        ELSE market_state[t]]
          /\ eng' = [eng EXCEPT !.pc = "update", !.idx = 1]
          /\ UNCHANGED task
    /\ UNCHANGED <<envVars, cfgState, venue_requests, last_place, omVars>>
    /\ UNCHANGED <<running, killed, kill_engaged, orphans, ticks, positions, risk, trades_executed, db_decisions,
                   last_fill_ts_ms, last_reconcile_ts>>

\* DecisionRecord: what record_decision logs.
\* _safe_advisor returned None: the advisor is disabled, not configured, failed or
\* had no output.
NoAdvisory == [present |-> FALSE, veto |-> FALSE, confidence |-> 0]

\* What _safe_advisor can return: None, or the advisor's output with its veto and its
\* confidence in hundredths.
Advisories ==
    {NoAdvisory, [present |-> TRUE, veto |-> FALSE, confidence |-> 90]}
        \cup [present : {TRUE}, veto : {TRUE}, confidence : {70, 90}]

\* The veto test with the confidence left out.
AdvisorVetoesAny(advisory) ==
    advisory.present /\ advisory.veto

\* maybe_open_trade line 130: advisory and advisory.get("veto") and confidence > 0.7.
AdvisorVetoes(advisory) ==
    advisory.present /\ advisory.veto /\ advisory.confidence > 70

Decision(market_id, action, reason_code) ==
    [market_id |-> market_id, action |-> action, reason_code |-> reason_code,
     advisory |-> NoAdvisory]

NoDecision == Decision("none", "none", "none")

\* update_positions, one position of its loop: lines 193-226 (and 244 on HOLD).
UpdatePositions ==
    /\ eng.pc = "update"
    /\ IF eng.idx > Len(positions)
       THEN /\ eng' = [eng EXCEPT !.pc = "open", !.idx = 0]
            /\ UNCHANGED <<positions, om, om_result>>
       ELSE LET p == positions[eng.idx]
                snapshot == market_state[p.market_id].last_snapshot
            IN  IF p.status # "open" \/ snapshot.kind = "none"
                THEN /\ eng' = [eng EXCEPT !.idx = @ + 1]
                     /\ UNCHANGED <<positions, om, om_result>>
                ELSE \E hold_expired \in BOOLEAN, late \in BOOLEAN :
                       LET current == MidPrice(snapshot)
                           d == DecideExit(DefaultExit, p.entry_price, current, p.side, hold_expired, late,
                                           p.peak_pnl_pct, p.trail_stop_pct)
                       IN  /\ positions' = [positions EXCEPT ![eng.idx] =
                                 [p EXCEPT !.current_price = current,
                                           !.pnl_pct = ComputePnlPct(p.entry_price, current, p.side),
                                           !.peak_pnl_pct = d.new_peak,
                                           !.trail_stop_pct = d.trail_stop]]
                           /\ IF d.action = "HOLD"
                              THEN /\ eng' = [eng EXCEPT !.idx = @ + 1]
                                   /\ UNCHANGED <<om, om_result>>
                              ELSE /\ BeginCloseWithLimit("exit", order_manager, p.market_id, p.side,
                                                          snapshot.bid, snapshot.ask, p.qty)
                                   /\ eng' = [eng EXCEPT !.pc = "closing", !.action = d.action,
                                                         !.reason_code = d.reason_code]
    /\ UNCHANGED <<envVars, cfgState, venue_requests, last_place, broker_orders, db_orders, db_fills>>
    /\ UNCHANGED <<running, killed, kill_engaged, orphans, task, ticks, last_scan, market_state, risk, trades_executed,
                   db_decisions, last_fill_ts_ms, last_reconcile_ts>>

\* update_positions lines 227-244: close_with_limit has returned.
ExitFinish ==
    /\ eng.pc = "closing"
    /\ om.pc = "returned"
    /\ LET p == positions[eng.idx]
       IN  /\ positions' = [positions EXCEPT ![eng.idx] =
                               [p EXCEPT !.status = "closed", !.closes = @ + 1,
                                         !.recorded = @ + 1]]
           /\ risk' = RecordTrade(risk, p.pnl_pct)
           /\ db_decisions' = Decision(p.market_id, eng.action, eng.reason_code)
    /\ om' = IdleFrame
    /\ om_result' = NoResult
    /\ eng' = [eng EXCEPT !.pc = "update", !.idx = @ + 1, !.action = "none", !.reason_code = "none"]
    /\ UNCHANGED <<envVars, cfgState, venue_requests, last_place, broker_orders, db_orders, db_fills>>
    /\ UNCHANGED <<running, killed, kill_engaged, orphans, task, ticks, last_scan, market_state, trades_executed,
                   last_fill_ts_ms, last_reconcile_ts>>

\* place_order or cancel_order raised inside the order manager: nothing between the
\* call and run_bot handles it.
EngineRaise ==
    /\ eng.pc \in {"closing", "placing"}
    /\ om.pc = "raised"
    /\ TaskCrashed
    /\ om' = IdleFrame
    /\ om_result' = NoResult
    /\ UNCHANGED <<envVars, cfgState, venue_requests, last_place, broker_orders, db_orders, db_fills>>
    /\ UNCHANGED <<running, killed, kill_engaged, orphans, ticks, last_scan, market_state, positions, risk,
                   trades_executed, db_decisions, last_fill_ts_ms, last_reconcile_ts>>

\* maybe_open_trade lines 84-106: the guards, the exposure update, can_trade (called
\* once, its answer kept for the whole loop), the selections, the order manager.
MaybeOpenTrade ==
    /\ eng.pc = "open"
    /\ IF \/ /\ config.trading_mode = "live"
             /\ (~config.live_trading_enabled \/ config.live_confirm # LIVE_CONFIRM)
          \/ ~last_scan.present
          \/ trades_executed >= MAX_TRADES_PER_EVENT
       THEN /\ eng' = [eng EXCEPT !.pc = "reconcile"]
            /\ UNCHANGED risk
       ELSE \E elapsed \in BOOLEAN :
              LET open == OpenPositions
                  exposed == [risk EXCEPT !.exposure_contracts = ExposureQty(open),
                                          !.exposure_dollars = ExposureNotional(open),
                                          !.active_positions = Len(open)]
                  allowed == CanTrade(config, exposed, exposed.last_trade_time /\ ~elapsed)
                  qualifying == SelectSeq(last_scan.markets, LAMBDA snap : snap.qualifies)
                  max_new_positions == Max(MAX_CONCURRENT_POSITIONS - Len(open), 0)
                  pick_count == IF max_new_positions >= 2 THEN 2 ELSE 1
              IN  /\ risk' = exposed
                  /\ IF qualifying = <<>>
                     THEN eng' = [eng EXCEPT !.pc = "reconcile"]
                     ELSE eng' = [eng EXCEPT
                                    !.pc = "select", !.idx = 1,
                                    !.risk_allows = allowed[1], !.risk_reason = allowed[2],
                                    !.held = {open[i].market_id : i \in 1..Len(open)},
                                    !.selections = SubSeq(qualifying, 1, Min(pick_count, Len(qualifying))),
                                    !.mgr = order_manager]
    /\ UNCHANGED <<envVars, cfgState, venue_requests, last_place, omVars>>
    /\ UNCHANGED <<running, killed, kill_engaged, orphans, task, ticks, last_scan, market_state, positions,
                   trades_executed, db_decisions, last_fill_ts_ms, last_reconcile_ts>>

\* maybe_open_trade, one selection of its loop up to the await: lines 107-140.
OpenSelect ==
    /\ eng.pc = "select"
    /\ IF eng.idx > Len(eng.selections)
       THEN /\ eng' = [eng EXCEPT !.pc = "reconcile"]
            /\ UNCHANGED <<om, om_result, db_decisions>>
       ELSE LET snapshot == eng.selections[eng.idx]
            IN  IF snapshot.market_id \in eng.held
                THEN /\ eng' = [eng EXCEPT !.idx = @ + 1]
                     /\ UNCHANGED <<om, om_result, db_decisions>>
                ELSE \E momentum \in Momentums, edge_ok \in BOOLEAN, elapsed \in BOOLEAN,
                        advisory \in Advisories :
                       LET in_cooldown == market_state[snapshot.market_id].cooldown_until /\ ~elapsed
                           d == DecideEntry(ENTRY_EDGE_PCT, momentum, edge_ok, MidPrice(snapshot),
                                            snapshot, eng.risk_allows, in_cooldown)
                       IN  /\ db_decisions' = [Decision(snapshot.market_id, d.action, d.reason_code)
                                                EXCEPT !.advisory = advisory]
                           /\ IF AdvisorVetoes(advisory) \/ d.action # "ENTER"
                              THEN /\ eng' = [eng EXCEPT !.idx = @ + 1]
                                   /\ UNCHANGED <<om, om_result>>
                              ELSE /\ BeginPlaceWithTtl("entry", eng.mgr, snapshot.market_id,
                                                        "buy", d.side, d.price)
                                   /\ eng' = [eng EXCEPT !.pc = "placing", !.side = d.side,
                                                         !.price = d.price,
                                                         !.reason_code = d.reason_code]
    /\ UNCHANGED <<envVars, cfgState, venue_requests, last_place, broker_orders, db_orders, db_fills>>
    /\ UNCHANGED <<running, killed, kill_engaged, orphans, task, ticks, last_scan, market_state, positions, risk,
                   trades_executed, last_fill_ts_ms, last_reconcile_ts>>

\* maybe_open_trade lines 141-187: place_with_ttl has returned.
EntryFinish ==
    /\ eng.pc = "placing"
    /\ om.pc = "returned"
    /\ LET snapshot == eng.selections[eng.idx]
           position == NewPosition(om_result.order_id, snapshot.market_id, eng.side,
                                   OrElse(om_result.filled_qty, config.order_size),
                                   OrElse(om_result.avg_fill_price, eng.price))
       IN  IF om_result.filled_qty # 0
           THEN /\ positions' = Append(positions, position)
                /\ trades_executed' = trades_executed + 1
                /\ market_state' = [market_state EXCEPT ![snapshot.market_id].cooldown_until = TRUE]
                /\ db_decisions' = Decision(snapshot.market_id, "ENTER", eng.reason_code)
                /\ eng' = [eng EXCEPT !.pc = "reconcile"]
           ELSE /\ eng' = [eng EXCEPT !.pc = "select", !.idx = @ + 1]
                /\ UNCHANGED <<positions, trades_executed, market_state, db_decisions>>
    /\ om' = IdleFrame
    /\ om_result' = NoResult
    /\ UNCHANGED <<envVars, cfgState, venue_requests, last_place, broker_orders, db_orders, db_fills>>
    /\ UNCHANGED <<running, killed, kill_engaged, orphans, task, ticks, last_scan, risk, last_fill_ts_ms, last_reconcile_ts>>

\* The order manager's steps inside a tick.
InOrderManager == eng.pc \in {"closing", "placing"}

engRest == <<envVars, cfgState, running, killed, kill_engaged, orphans, task, eng, ticks, last_scan, market_state,
             positions, risk, trades_executed, db_decisions, last_fill_ts_ms, last_reconcile_ts>>

EngRefreshQuote == InOrderManager /\ OMRefreshQuote /\ UNCHANGED engRest

EngPlaceOrder == InOrderManager /\ OMPlaceOrder /\ UNCHANGED engRest

EngRecord == InOrderManager /\ OMRecord /\ UNCHANGED engRest

EngWake == InOrderManager /\ OMWake /\ UNCHANGED engRest

EngCancel == InOrderManager /\ OMCancel /\ UNCHANGED engRest

\* ---- what the venue answers to the reconciliation requests
RECURSIVE VenueSum(_, _, _, _)
\* Sums over the venue's orders 1..n of a market and side: the net contracts held,
\* the contracts bought, the cost of the contracts bought.
VenueSum(n, t, s, what) ==
    IF n = 0 THEN 0
    ELSE LET o == broker_orders[n]
             mine == o.broker = "kalshi" /\ o.ticker = t /\ o.side = s
             v == IF ~mine THEN 0
                  ELSE IF what = "net"
                  THEN IF o.action = "buy" THEN o.filled_qty ELSE -o.filled_qty
                  ELSE IF o.action # "buy" THEN 0
                  ELSE IF what = "bought" THEN o.filled_qty ELSE o.price * o.filled_qty
         IN  v + VenueSum(n - 1, t, s, what)

\* GET /portfolio/positions: one payload per market and side held.
VenuePositions ==
    LET n == Len(broker_orders)
        key(i) == <<TickerList[(i + 1) \div 2], IF i % 2 = 1 THEN "yes" ELSE "no">>
        payload(i) ==
            [market_id |-> key(i)[1], side |-> key(i)[2],
             qty |-> VenueSum(n, key(i)[1], key(i)[2], "net"),
             entry_price |->
                 IF VenueSum(n, key(i)[1], key(i)[2], "bought") = 0 THEN 0
                 ELSE VenueSum(n, key(i)[1], key(i)[2], "cost")
                          \div VenueSum(n, key(i)[1], key(i)[2], "bought")]
    IN  SelectSeq([i \in 1..(2 * Len(TickerList)) |-> payload(i)], LAMBDA b : b.qty > 0)

\* get_fills(since): the fills of a broker's orders. The venue's carry market, action,
\* side and a numeric timestamp; the paper broker's only order id, price and size.
BrokerFills(broker, since) ==
    LET fill(i) ==
            LET o == broker_orders[i]
            IN  [order_id |-> i,
                 market_id |-> IF broker = "kalshi" THEN o.ticker ELSE "",
                 action |-> IF broker = "kalshi" THEN o.action ELSE "buy",
                 side |-> IF broker = "kalshi" THEN o.side ELSE "yes",
                 price |-> o.price, qty |-> o.filled_qty,
                 ts |-> IF broker = "kalshi" THEN i ELSE 0]
    IN  SelectSeq([i \in 1..Len(broker_orders) |-> fill(i)],
                  LAMBDA f : /\ broker_orders[f.order_id].broker = broker
                             /\ f.qty > 0
                             /\ (broker = "kalshi" => f.ts > since))

\* OrderManager.reconcile_broker
ReconcileBroker(broker, since_ms) ==
    [orders |-> IF broker = "kalshi" THEN OpenOrderIds(broker) ELSE <<>>,
     positions |-> IF broker = "kalshi" THEN VenuePositions ELSE <<>>,
     fills |-> BrokerFills(broker, since_ms)]

EmptyPayload == [orders |-> <<>>, positions |-> <<>>, fills |-> <<>>]

RECURSIVE LogFills(_, _)
\* reconcile_broker_state lines 287-305: every fill of the payload goes to log_fill.
LogFills(fills, payload) ==
    IF payload = <<>> THEN fills
    ELSE LET f == Head(payload)
         IN  LogFills(LogFill(fills, f.order_id, f.market_id, f.action, f.side, f.price, f.qty),
                      Tail(payload))

RECURSIVE FillCursor(_, _)
\* last_fill_ts_ms = max(last_fill_ts_ms or 0, fill_ts) for each fill with a timestamp
FillCursor(cursor, payload) ==
    IF payload = <<>> THEN cursor
    ELSE FillCursor(IF Head(payload).ts # 0 THEN Max(cursor, Head(payload).ts) ELSE cursor,
                    Tail(payload))

RECURSIVE UpsertOpenOrders(_, _)
\* reconcile_broker_state lines 306-327
UpsertOpenOrders(orders, ids) ==
    IF ids = <<>> THEN orders
    ELSE LET o == broker_orders[Head(ids)]
         IN  UpsertOpenOrders(
                 UpsertOrder(orders, Head(ids),
                             [market_id |-> o.ticker, action |-> o.action, side |-> o.side,
                              price |-> o.price, qty |-> o.qty, status |-> o.status]),
                 Tail(ids))

RECURSIVE MergePositions(_, _)
\* reconcile_broker_state lines 328-358: a reported position overwrites qty and entry
\* price of the first local position of that market, or a local one is synthesized.
MergePositions(ps, payload) ==
    IF payload = <<>> THEN ps
    ELSE LET b == Head(payload)
             found == {i \in 1..Len(ps) : ps[i].market_id = b.market_id}
             first == CHOOSE i \in found : \A j \in found : i <= j
             merged == IF found # {}
                       THEN [ps EXCEPT ![first].qty = b.qty, ![first].entry_price = b.entry_price]
                       ELSE Append(ps, NewPosition(0, b.market_id, b.side, b.qty, b.entry_price))
         IN  MergePositions(merged, Tail(payload))

\* reconcile_broker_state, then the publishes up to the cadence sleep. recent is the
\* answer of the throttle's clock comparison, fetched whether the venue requests succeed.
ReconcileBrokerState ==
    /\ eng.pc = "reconcile"
    /\ IF config.trading_mode # "live"
       THEN UNCHANGED <<last_reconcile_ts, last_fill_ts_ms, db_fills, db_orders, positions>>
       ELSE \E recent \in BOOLEAN, fetched \in BOOLEAN :
              IF last_reconcile_ts /\ recent
              THEN UNCHANGED <<last_reconcile_ts, last_fill_ts_ms, db_fills, db_orders, positions>>
              ELSE LET payload == IF fetched \/ order_manager.broker = "paper"
                                  THEN ReconcileBroker(order_manager.broker, last_fill_ts_ms)
                                  ELSE EmptyPayload
                   IN  /\ last_reconcile_ts' = TRUE
                       /\ last_fill_ts_ms' = FillCursor(last_fill_ts_ms, payload.fills)
                       /\ db_fills' = LogFills(db_fills, payload.fills)
                       /\ db_orders' = UpsertOpenOrders(db_orders, payload.orders)
                       /\ positions' = MergePositions(positions, payload.positions)
    /\ eng' = [NoFrame EXCEPT !.pc = "sleep"]
    /\ UNCHANGED <<envVars, cfgState, venue_requests, last_place, om, om_result, broker_orders>>
    /\ UNCHANGED <<running, killed, kill_engaged, orphans, task, ticks, last_scan, market_state, risk, trades_executed,
                   db_decisions>>

\* ------------------------------------------------------- specifications
cfgVars == <<env_gate, environment_label, probe, config, saved_config, kalshi_broker,
             order_manager, kalshi_calls>>

\* BotState.__init__ for an environment and a config file.
InitWith(envs, labels, files) ==
    /\ env_gate \in envs
    /\ environment_label \in labels
    /\ saved_config \in files
    /\ config = LoadConfig(saved_config, env_gate)
    /\ kalshi_broker = [live_gate_enabled |-> config.live_trading_enabled,
                        live_confirm |-> config.live_confirm]
    /\ order_manager = NewOrderManager(config)
    /\ venue_requests = {}
    /\ last_place = [outcome |-> "none", gate |-> GateSnapshot]
    /\ kalshi_calls = 0
    /\ om = IdleFrame
    /\ om_result = NoResult
    /\ broker_orders = <<>>
    /\ db_orders = <<>>
    /\ db_fills = <<>>
    /\ running = FALSE
    /\ killed = FALSE
    /\ kill_engaged = FALSE
    /\ orphans = 0
    /\ task = "none"
    /\ eng = NoFrame
    /\ ticks = 0
    /\ handler_calls = 0
    /\ last_scan = NoScan
    /\ market_state = [t \in Tickers |-> NewMarketState]
    /\ positions = <<>>
    /\ risk = NewRiskState
    /\ trades_executed = 0
    /\ db_decisions = NoDecision
    /\ last_fill_ts_ms = 0
    /\ last_reconcile_ts = FALSE
    /\ probe = NoProbe

\* ---- the live gate under config updates
GateConfigFiles ==
    [trading_mode : TradingModes, live_trading_enabled : BOOLEAN,
     live_confirm : ConfirmValues, kill_switch : {FALSE},
     order_size : {ORDER_SIZE}, max_replacements : {MAX_REPLACEMENTS},
     max_close_requotes : {MAX_CLOSE_REQUOTES}, order_ttl_seconds : {ORDER_TTL_SECONDS},
     close_slippage_pct : {CLOSE_SLIPPAGE_PCT}]

InitGate ==
    InitWith(BOOLEAN, EnvironmentLabels, GateConfigFiles)

\* POST /config; probe keeps the payload, the answer and what the state was.
GateUpdateConfig ==
    /\ \E p_mode \in TradingModes \cup {"keep"}, p_confirm \in ConfirmValues \cup {"keep"},
          p_kill \in {"keep", "on", "off"} :
          /\ UpdateConfig(p_mode, p_confirm, p_kill)
          /\ probe' = [fn |-> "update_config", n |-> 0, p_mode |-> p_mode,
                       p_confirm |-> p_confirm, p_kill |-> p_kill,
                       status |-> IF ConfigRejected(MergedConfig(p_mode, p_confirm, p_kill))
                                  THEN 400 ELSE 200,
                       before |-> [config |-> config, saved_config |-> saved_config,
                                   kalshi_broker |-> kalshi_broker,
                                   order_manager |-> order_manager, risk |-> risk]]
    /\ UNCHANGED <<env_gate, environment_label, venue_requests, last_place, kalshi_calls>>
    /\ UNCHANGED <<omVars, engVars>>

GatePlaceOrder ==
    /\ KalshiPlaceOrder
    /\ UNCHANGED <<env_gate, environment_label, probe, config, saved_config, kalshi_broker, order_manager>>
    /\ UNCHANGED <<omVars, engVars, risk>>

NextGate ==
    \/ GateUpdateConfig
    \/ GatePlaceOrder

SpecGate == InitGate /\ [][NextGate]_vars

\* ---- the order manager against a broker, called directly as in the tests
OMConfigFiles ==
    [trading_mode : TradingModes, live_trading_enabled : {TRUE},
     live_confirm : {LIVE_CONFIRM}, kill_switch : {FALSE},
     order_size : 1..MaxOrderSize, max_replacements : 1..MaxReplacements,
     max_close_requotes : 1..MaxCloseRequotes, order_ttl_seconds : {0, ORDER_TTL_SECONDS},
     close_slippage_pct : {CLOSE_SLIPPAGE_PCT}]

InitOM ==
    InitWith({TRUE}, {"live"}, OMConfigFiles)

OMCallPlaceWithTtl ==
    /\ om.pc = "idle"
    /\ \E ticker \in {"MKT-A"}, side \in Sides, price \in Prices :
          BeginPlaceWithTtl("direct", order_manager, ticker, "buy", side, price)
    /\ UNCHANGED <<broker_orders, db_orders, db_fills, venue_requests, last_place>>
    /\ UNCHANGED <<cfgVars, engVars, risk>>

OMCallCloseWithLimit ==
    /\ om.pc = "idle"
    /\ \E ticker \in {"MKT-A"}, side \in Sides, q \in {MarketQuote}, qty \in 1..MaxOrderSize :
          BeginCloseWithLimit("direct", order_manager, ticker, side, q.bid, q.ask, qty)
    /\ UNCHANGED <<broker_orders, db_orders, db_fills, venue_requests, last_place>>
    /\ UNCHANGED <<cfgVars, engVars, risk>>

OMDirectRefreshQuote == OMRefreshQuote /\ UNCHANGED <<cfgVars, engVars, risk>>

OMDirectPlaceOrder == OMPlaceOrder /\ UNCHANGED <<cfgVars, engVars, risk>>

OMDirectRecord == OMRecord /\ UNCHANGED <<cfgVars, engVars, risk>>

OMDirectWake == OMWake /\ UNCHANGED <<cfgVars, engVars, risk>>

OMDirectCancel == OMCancel /\ UNCHANGED <<cfgVars, engVars, risk>>

NextOM ==
    \/ OMCallPlaceWithTtl
    \/ OMCallCloseWithLimit
    \/ OMDirectRefreshQuote
    \/ OMDirectPlaceOrder
    \/ OMDirectRecord
    \/ OMDirectWake
    \/ OMDirectCancel

SpecOM == InitOM /\ [][NextOM]_vars

\* ---- the control surface. A request is served only while the tick is suspended:
\* at the cadence sleep, at the TTL sleep of place_with_ttl, or when no task runs.
Suspended ==
    \/ task # "alive"
    \/ eng.pc \in {"head", "sleep"}
    \/ (eng.pc = "placing" /\ om.pc = "sleep")

Served ==
    /\ Suspended
    /\ handler_calls < MaxHandlerCalls
    /\ handler_calls' = handler_calls + 1

\* task.cancel(); state.task = None. A running task ends at its await, whatever it
\* was waiting for.
CancelTask ==
    /\ task' = "none"
    /\ eng' = NoFrame
    /\ om' = IdleFrame
    /\ om_result' = NoResult

\* POST /config
PostConfig ==
    /\ Served
    /\ \E p_mode \in TradingModes \cup {"keep"}, p_kill \in {"keep", "on", "off"} :
          UpdateConfig(p_mode, "keep", p_kill)
    /\ UNCHANGED <<env_gate, environment_label, probe, kalshi_calls, venue_requests, last_place, omVars>>
    /\ UNCHANGED <<running, killed, kill_engaged, orphans, task, eng, ticks, last_scan, market_state, positions,
                   trades_executed, db_decisions, last_fill_ts_ms, last_reconcile_ts>>

\* POST /bot/start
StartBot ==
    /\ Served
    /\ ~running
    /\ running' = TRUE
    /\ killed' = FALSE
    /\ UNCHANGED kill_engaged
    /\ orphans' = IF task = "alive" THEN orphans + 1 ELSE orphans
    /\ task' = "alive"
    /\ eng' = [NoFrame EXCEPT !.pc = "head"]
    /\ UNCHANGED <<env_gate, environment_label, probe, kalshi_calls, cfgState, venue_requests, last_place, omVars>>
    /\ UNCHANGED <<ticks, last_scan, market_state, positions, risk, trades_executed,
                   db_decisions, last_fill_ts_ms, last_reconcile_ts>>

\* POST /bot/stop
StopBot ==
    /\ Served
    /\ running' = FALSE
    /\ CancelTask
    /\ UNCHANGED <<env_gate, environment_label, probe, kalshi_calls, cfgState, venue_requests, last_place,
                   broker_orders, db_orders, db_fills>>
    /\ UNCHANGED <<killed, kill_engaged, orphans, ticks, last_scan, market_state, positions, risk, trades_executed,
                   db_decisions, last_fill_ts_ms, last_reconcile_ts>>

\* POST /bot/kill
KillBot ==
    /\ Served
    /\ running' = FALSE
    /\ killed' = TRUE
    /\ kill_engaged' = TRUE
    /\ UNCHANGED orphans
    /\ \E k \in CancelCounts(Broker(config)) :
          broker_orders' = CancelFirst(broker_orders, OpenOrderIds(Broker(config)), k)
    /\ CancelTask
    /\ UNCHANGED <<env_gate, environment_label, probe, kalshi_calls, cfgState, venue_requests, last_place,
                   db_orders, db_fills>>
    /\ UNCHANGED <<ticks, last_scan, market_state, positions, risk, trades_executed,
                   db_decisions, last_fill_ts_ms, last_reconcile_ts>>

\* POST /positions/{position_id}/close for the i-th position. There is no test of the
\* position's status: the sell order goes out and the position is stamped closed
\* whatever it was. A failed place_order is answered with HTTP 400.
ClosePosition(i) ==
    LET position == positions[i]
        snapshot == market_state[position.market_id].last_snapshot
        broker == Broker(config)
        price == IF position.side = "yes" THEN snapshot.bid ELSE snapshot.ask
    IN  /\ Served
        /\ snapshot.kind # "none"
        /\ Len(broker_orders) < MaxOrders
        /\ \E out \in BrokerPlaceOutcomes(broker, price, position.qty) :
              /\ IF broker = "kalshi"
                 THEN KalshiGateEffect(KalshiSends(price, position.qty))
                 ELSE UNCHANGED <<venue_requests, last_place>>
              /\ IF out.kind = "raise"
                 THEN UNCHANGED <<broker_orders, positions>>
                 ELSE /\ broker_orders' = Append(broker_orders,
                             NewBrokerOrder(broker, position.market_id, "sell", position.side,
                                            price, position.qty, out))
                      /\ positions' = [positions EXCEPT ![i] =
                                          [position EXCEPT !.status = "closed", !.closes = @ + 1]]
        /\ UNCHANGED <<env_gate, environment_label, probe, kalshi_calls, cfgState, om, om_result,
                       db_orders, db_fills>>
        /\ UNCHANGED <<running, killed, kill_engaged, orphans, task, eng, ticks, last_scan, market_state, risk,
                       trades_executed, db_decisions, last_fill_ts_ms, last_reconcile_ts>>

PostClosePosition == \E i \in 1..Len(positions) : ClosePosition(i)

\* POST /bot/dryrun: scan_markets(state) runs on the live state, then decide_entry and
\* decide_exit are called and their answers returned, nothing of them being stored.
\* A failed list_markets is answered with an error.
DryRun ==
    /\ Served
    /\ \/ /\ Broker(config) = "kalshi"
          /\ UNCHANGED <<last_scan, market_state>>
       \/ \E markets \in ScanLists :
             /\ last_scan' = [present |-> TRUE, markets |-> markets]
             /\ market_state' =
                   [t \in Tickers |->
                      IF \E i \in 1..Len(markets) : markets[i].market_id = t
                      THEN [market_state[t] EXCEPT !.last_snapshot =
                               markets[CHOOSE i \in 1..Len(markets) : markets[i].market_id = t]]
                      ELSE market_state[t]]
    /\ UNCHANGED <<env_gate, environment_label, probe, kalshi_calls, cfgState, venue_requests, last_place, omVars>>
    /\ UNCHANGED <<running, killed, kill_engaged, orphans, task, eng, ticks, positions, risk,
                   trades_executed, db_decisions, last_fill_ts_ms, last_reconcile_ts>>

\* ---- the engine with its control surface
EngineConfigFiles ==
    [trading_mode : TradingModes, live_trading_enabled : {TRUE},
     live_confirm : {LIVE_CONFIRM}, kill_switch : {FALSE},
     order_size : 1..MaxOrderSize, max_replacements : {1},
     max_close_requotes : {1}, order_ttl_seconds : {ORDER_TTL_SECONDS},
     close_slippage_pct : {CLOSE_SLIPPAGE_PCT}]

Init == InitWith(BOOLEAN, {"live"}, EngineConfigFiles)

Next ==
    \/ StartBot
    \/ StopBot
    \/ KillBot
    \/ PostConfig
    \/ PostClosePosition
    \/ DryRun
    \/ TickBegin
    \/ ScanMarkets
    \/ UpdatePositions
    \/ ExitFinish
    \/ MaybeOpenTrade
    \/ OpenSelect
    \/ EntryFinish
    \/ EngRefreshQuote
    \/ EngPlaceOrder
    \/ EngRecord
    \/ EngWake
    \/ EngCancel
    \/ EngineRaise
    \/ ReconcileBrokerState

Spec == Init /\ [][Next]_vars

\* ---- the engine started from a config file that may have the kill switch on.
LoopConfigFiles ==
    [trading_mode : TradingModes, live_trading_enabled : {TRUE},
     live_confirm : {LIVE_CONFIRM}, kill_switch : BOOLEAN,
     order_size : {ORDER_SIZE}, max_replacements : {1},
     max_close_requotes : {1}, order_ttl_seconds : {ORDER_TTL_SECONDS},
     close_slippage_pct : {CLOSE_SLIPPAGE_PCT}]

InitLoops == InitWith({TRUE}, {"live"}, LoopConfigFiles)

\* The loop test of a run_bot task that start_bot has replaced in state.task
\* (lines 379-382): it ends when running is false or killed is true. While the test
\* passes the task stays alive and ticks like the task in state.task; those ticks are
\* not followed here.
OrphanLoopTest ==
    /\ orphans > 0
    /\ ~running \/ killed
    /\ running' = FALSE
    /\ orphans' = orphans - 1
    /\ UNCHANGED <<envVars, cfgState, venue_requests, last_place, omVars>>
    /\ UNCHANGED <<killed, kill_engaged, task, eng, ticks, last_scan, market_state, positions, risk,
                   trades_executed, db_decisions, last_fill_ts_ms, last_reconcile_ts>>

NextLoops ==
    \/ Next
    \/ OrphanLoopTest

SpecLoops == InitLoops /\ [][NextLoops]_vars

\* ------------------------------------------- the risk manager, called directly
\* The PnL of a closed trade, in hundredths of a percent.
TradePnls == {-300, -200, 100, 500}

\* RiskManager.update_exposure
UpdateExposure(r, exposure_contracts, exposure_dollars, active_positions) ==
    [r EXCEPT !.exposure_contracts = exposure_contracts,
              !.exposure_dollars = exposure_dollars,
              !.active_positions = active_positions]

\* RiskManager.reset_event
ResetEvent(r) ==
    [r EXCEPT !.event_pnl_pct = 0, !.consecutive_losses = 0, !.trade_history = <<>>]

\* RiskManager.in_cooldown. elapsed: the cooldown time has passed since the last trade.
InCooldown(r, elapsed) ==
    r.last_trade_time /\ ~elapsed

\* Everything a direct call on the risk manager or a decision function leaves alone.
callRest == <<env_gate, environment_label, config, saved_config, kalshi_broker, order_manager,
              venue_requests, last_place, kalshi_calls, omVars, engVars>>

RiskRecordTrade ==
    /\ probe.n < MaxCalls
    /\ \E pnl_pct \in TradePnls :
          /\ risk' = RecordTrade(risk, pnl_pct)
          /\ probe' = [fn |-> "record_trade", n |-> probe.n + 1, pnl_pct |-> pnl_pct]
    /\ UNCHANGED callRest

RiskUpdateExposure ==
    /\ probe.n < MaxCalls
    /\ \E ec \in {0, MAX_EXPOSURE_CONTRACTS}, ed \in {0, MAX_EXPOSURE_DOLLARS},
          ap \in {0, MAX_CONCURRENT_POSITIONS} :
          risk' = UpdateExposure(risk, ec, ed, ap)
    /\ probe' = [fn |-> "update_exposure", n |-> probe.n + 1]
    /\ UNCHANGED callRest

RiskResetEvent ==
    /\ probe.n < MaxCalls
    /\ risk' = ResetEvent(risk)
    /\ probe' = [fn |-> "reset_event", n |-> probe.n + 1]
    /\ UNCHANGED callRest

RiskCanTrade ==
    /\ probe.n < MaxCalls
    /\ \E elapsed \in BOOLEAN :
          LET in_cooldown == InCooldown(risk, elapsed)
              answer == CanTrade(config, risk, in_cooldown)
          IN  probe' = [fn |-> "can_trade", n |-> probe.n + 1,
                        kill_switch |-> config.kill_switch, state |-> risk,
                        in_cooldown |-> in_cooldown,
                        allowed |-> answer[1], reason |-> answer[2]]
    /\ UNCHANGED <<callRest, risk>>

\* RiskManager(limits) for the default limits, with the kill switch on or off.
RiskConfigFiles ==
    [trading_mode : {"paper"}, live_trading_enabled : {FALSE},
     live_confirm : {""}, kill_switch : BOOLEAN,
     order_size : {ORDER_SIZE}, max_replacements : {MAX_REPLACEMENTS},
     max_close_requotes : {MAX_CLOSE_REQUOTES}, order_ttl_seconds : {ORDER_TTL_SECONDS},
     close_slippage_pct : {CLOSE_SLIPPAGE_PCT}]

InitRisk ==
    InitWith({FALSE}, {"demo"}, RiskConfigFiles)

NextRisk ==
    \/ RiskRecordTrade
    \/ RiskUpdateExposure
    \/ RiskResetEvent
    \/ RiskCanTrade

SpecRisk == InitRisk /\ [][NextRisk]_vars

\* ---- the limits of maybe_open_trade over several markets, in paper mode
\* The markets a scan finds qualifying.
LimitMarkets == {"MKT-A", "MKT-B"}

\* trade_sizing.order_size as configured.
LimitConfigFiles ==
    [trading_mode : {"paper"}, live_trading_enabled : {FALSE},
     live_confirm : {""}, kill_switch : {FALSE},
     order_size : 1..MaxLimitOrderSize, max_replacements : {MAX_REPLACEMENTS},
     max_close_requotes : {MAX_CLOSE_REQUOTES}, order_ttl_seconds : {ORDER_TTL_SECONDS},
     close_slippage_pct : {CLOSE_SLIPPAGE_PCT}]

InitLimits ==
    InitWith({FALSE}, {"demo"}, LimitConfigFiles)

limitRest == <<envVars, cfgState, venue_requests, last_place, omVars, running, killed, kill_engaged,
               orphans, task, eng, ticks, last_scan, market_state, db_decisions, last_fill_ts_ms,
               last_reconcile_ts>>

\* maybe_open_trade for a scan whose first qualifying market is `market`, when
\* decide_entry answers ENTER unless the risk manager forbids it: the trades test
\* (lines 90-91), update_exposure and can_trade (93-97), the held-market test (108),
\* and the position built from the paper broker's full fill (140-157).
LimitOpenTrade ==
    /\ Len(positions) < MaxCalls
    /\ \E market \in LimitMarkets, elapsed \in BOOLEAN :
          IF trades_executed >= MAX_TRADES_PER_EVENT
          THEN UNCHANGED <<positions, risk, trades_executed>>
          ELSE LET open == OpenPositions
                   exposed == UpdateExposure(risk, ExposureQty(open), ExposureNotional(open),
                                             Len(open))
                   allowed == CanTrade(config, exposed, InCooldown(exposed, elapsed))
                   held == {open[i].market_id : i \in 1..Len(open)}
                   filled_qty == order_manager.config.order_size
               IN  /\ risk' = exposed
                   /\ IF allowed[1] /\ market \notin held
                      THEN /\ positions' = Append(positions,
                                  NewPosition(Len(positions) + 1, market, "yes", filled_qty,
                                              MidPrice(MarketQuote)))
                           /\ trades_executed' = trades_executed + 1
                      ELSE UNCHANGED <<positions, trades_executed>>
    /\ UNCHANGED limitRest

\* update_positions closing the i-th position on an exit decision (lines 219-230).
LimitClose ==
    /\ \E i \in 1..Len(positions), pnl_pct \in {-200, 100} :
          /\ positions[i].status = "open"
          /\ positions' = [positions EXCEPT ![i] =
                              [@ EXCEPT !.status = "closed", !.pnl_pct = pnl_pct,
                                        !.closes = @ + 1, !.recorded = @ + 1]]
          /\ risk' = RecordTrade(risk, pnl_pct)
    /\ UNCHANGED <<limitRest, trades_executed>>

NextLimits ==
    \/ LimitOpenTrade
    \/ LimitClose

SpecLimits == InitLimits /\ [][NextLimits]_vars

\* ------------------------------------------------- decide_exit, called directly
\* An ExitConfig the validation accepts whose trail gap is wider than its trail start.
WideGapExit ==
    [take_profit_pct |-> TAKE_PROFIT_PCT, stop_loss_pct |-> STOP_LOSS_PCT,
     trail_start_pct |-> TRAIL_START_PCT, trail_gap_pct |-> 300]

\* An ExitConfig built without validation: PnL of 4% meets both the take-profit and
\* the stop-loss threshold.
ConstructedExit ==
    [take_profit_pct |-> TAKE_PROFIT_PCT, stop_loss_pct |-> -400,
     trail_start_pct |-> TRAIL_START_PCT, trail_gap_pct |-> TRAIL_GAP_PCT]

ExitConfigs == {DefaultExit, WideGapExit, ConstructedExit}

\* The entry price of the position and the mid prices it is evaluated at: PnL of
\* -4%, -2%, 0, 1%, 2%, 2.5%, 3% and 4% for side yes.
EXIT_ENTRY_PRICE == 5000

ExitPrices == {4800, 4900, 5000, 5050, 5100, 5125, 5150, 5200}

\* peak_pnl_pct and trail_stop_pct a caller hands in: those of a new Position (0 and
\* None) and values carried from earlier evaluations.
CarriedPeaks == {0, 300, 500}

CarriedStops == {NoTrail, 0, 150, 400}

\* The call decide_exit(...) and what it returned. reached_before: the PnL was at or
\* above trail_start_pct on an earlier evaluation of the same position.
ExitCall(cfg, side, current_price, hold_expired, late, peak_pnl_pct, trailing_stop_pct, reached_before) ==
    LET d == DecideExit(cfg, EXIT_ENTRY_PRICE, current_price, side, hold_expired, late,
                        peak_pnl_pct, trailing_stop_pct)
    IN  [fn |-> "decide_exit", n |-> probe.n + 1, cfg |-> cfg, side |-> side,
         current_price |-> current_price, hold_expired |-> hold_expired, late |-> late,
         peak_pnl_pct |-> peak_pnl_pct, trailing_stop_pct |-> trailing_stop_pct,
         reached_before |-> reached_before,
         pnl_pct |-> ComputePnlPct(EXIT_ENTRY_PRICE, current_price, side),
         action |-> d.action, reason_code |-> d.reason_code,
         new_peak |-> d.new_peak, trail_stop |-> d.trail_stop]

\* decide_exit called on a position for the first time, with the state handed in.
ExitFirstCall ==
    /\ probe.n < MaxCalls
    /\ probe.fn # "decide_exit"
    /\ \E cfg \in ExitConfigs, side \in Sides, current_price \in ExitPrices,
          hold_expired \in BOOLEAN, late \in BOOLEAN,
          peak_pnl_pct \in CarriedPeaks, trailing_stop_pct \in CarriedStops :
          probe' = ExitCall(cfg, side, current_price, hold_expired, late,
                            peak_pnl_pct, trailing_stop_pct, FALSE)
    /\ UNCHANGED <<callRest, risk>>

\* update_positions on the next tick: decide_exit on the position that was held, with
\* the peak and the trail stop the previous evaluation returned.
ExitNextCall ==
    /\ probe.n < MaxCalls
    /\ probe.fn = "decide_exit"
    /\ probe.action = "HOLD"
    /\ \E current_price \in ExitPrices, hold_expired \in BOOLEAN, late \in BOOLEAN :
          probe' = ExitCall(probe.cfg, probe.side, current_price, hold_expired, late,
                            probe.new_peak, probe.trail_stop,
                            probe.reached_before \/ probe.pnl_pct >= probe.cfg.trail_start_pct)
    /\ UNCHANGED <<callRest, risk>>

\* No part of the program state is read by a decision function: the defaults.
InitPure ==
    InitWith({FALSE}, {"demo"}, {DefaultConfig})

NextExit ==
    \/ ExitFirstCall
    \/ ExitNextCall

SpecExit == InitPure /\ [][NextExit]_vars

\* ------------------------------------------------ decide_entry, called directly
\* entry.momentum_window, and entry.momentum_threshold_pct in hundredths of a percent.
MOMENTUM_WINDOW == 3

MOMENTUM_THRESHOLD_PCT == 60

\* expected_edge_cost_pct, in hundredths of a percent: spread plus fee.
EdgeCosts == {20, 5000}

\* entry.entry_edge_pct in tenths of a percent: the ends of its range and the default.
EntryEdges == {0, ENTRY_EDGE_PCT, 50}

\* scan_markets appends the quote's mid to the price window, so decide_entry sees
\* quotes around the latest price of the window: a tight one, the market's spread,
\* and one with nothing bid on either side.
EntryQuotes(mid_now) ==
    IF mid_now = 0 THEN {MarketQuote}
    ELSE {[kind |-> "valid", bid |-> mid_now - h, ask |-> mid_now + h] :
            h \in {h \in {10, 1000, 5000} : mid_now - h >= 0 /\ mid_now + h <= 10000}}

\* The price windows of at most MaxHistory mid prices.
PriceHistories ==
    UNION {[1..len -> {4000, 5000, 6000}] : len \in 0..MaxHistory}

RECURSIVE SumOf(_)
SumOf(seq) == IF seq = <<>> THEN 0 ELSE Head(seq) + SumOf(Tail(seq))

\* decide_entry lines 61-64: the last momentum_window prices, and the difference
\* between the latest of them and their average, times the window length.
RecentPrices(prices) ==
    SubSeq(prices, Len(prices) - MOMENTUM_WINDOW + 1, Len(prices))

MomentumDiff(prices) ==
    LET recent == RecentPrices(prices)
    IN  Len(recent) * recent[Len(recent)] - SumOf(recent)

\* decide_entry lines 58-69: what the price window says. momentum_pct is
\* MomentumDiff / sum * 100, compared here without dividing.
Momentum(prices) ==
    IF Len(prices) < MOMENTUM_WINDOW THEN "short"
    ELSE IF Abs(MomentumDiff(prices)) * 10000 <= MOMENTUM_THRESHOLD_PCT * SumOf(RecentPrices(prices))
    THEN "flat"
    ELSE IF MomentumDiff(prices) > 0 THEN "up" ELSE "down"

\* decide_entry lines 70-71: abs(momentum_pct) - expected_edge_cost_pct > 0.
EdgeOk(prices, edge_cost) ==
    /\ Len(prices) >= MOMENTUM_WINDOW
    /\ Abs(MomentumDiff(prices)) * 10000 > edge_cost * SumOf(RecentPrices(prices))

\* POST /bot/dryrun, the decision for one market of the scan: decide_entry is called
\* for every market, qualifying or not, and its answer goes into the DecisionRecord.
\* decide_entry keeps no state, so a behaviour makes one call.
DryRunDecide ==
    /\ probe.n < MaxCalls
    /\ probe.fn = "none"
    /\ \E prices \in PriceHistories, qualifies \in BOOLEAN, entry_edge_pct \in EntryEdges,
          risk_allows \in BOOLEAN, in_cooldown \in BOOLEAN, edge_cost \in EdgeCosts :
        \E q \in EntryQuotes(IF prices = <<>> THEN 0 ELSE prices[Len(prices)]) :
          LET snapshot == Snapshot("MKT-A", q, qualifies)
              mid_now == MidPrice(snapshot)
              d == DecideEntry(entry_edge_pct, Momentum(prices), EdgeOk(prices, edge_cost),
                               mid_now, snapshot, risk_allows, in_cooldown)
          IN  probe' = [fn |-> "decide_entry", n |-> probe.n + 1, prices |-> prices,
                        entry_edge_pct |-> entry_edge_pct,
                        snapshot |-> snapshot, risk_allows |-> risk_allows,
                        in_cooldown |-> in_cooldown, edge_cost |-> edge_cost,
                        qualifies |-> qualifies, action |-> d.action,
                        reason_code |-> d.reason_code, side |-> d.side, price |-> d.price]
    /\ UNCHANGED <<callRest, risk>>

SpecEntry == InitPure /\ [][DryRunDecide]_vars

\* ------------------------------------------------------------------ C1
AllFourOn(g) ==
    /\ g.env_gate
    /\ g.live_gate_enabled
    /\ g.live_confirm = LIVE_CONFIRM
    /\ g.environment = "live"

\* C1: an order request reaches the venue client only when, at the moment of the
\* KalshiBroker.place_order call, the deployment flag, the broker's live_gate_enabled
\* toggle, the exact confirmation string and the 'live' environment label are all on;
\* with any one of them off the call raises and sends nothing. Config updates in
\* between do not change this.
C1_LiveGate ==
    /\ \A g \in venue_requests : AllFourOn(g)
    /\ last_place.outcome = "sent" => AllFourOn(last_place.gate)
    /\ last_place.outcome = "raised" => ~AllFourOn(last_place.gate)

C1_Witness ==
    /\ last_place.outcome = "raised"
    /\ venue_requests # {}
    /\ config.trading_mode = "paper"

\* ------------------------------------------------------------------ C2
OpenSubmitted ==
    {id \in om.submitted : broker_orders[id].status = "open"}

\* C2: while place_with_ttl or close_with_limit runs, at most one of the orders the
\* call has submitted (all for one market and side) is open at the broker: a
\* replacement is submitted only after the previous order is filled or cancelled.
C2_AtMostOneOpenOrder ==
    om.op \in {"place_with_ttl", "close_with_limit"} => Cardinality(OpenSubmitted) <= 1

\* ------------------------------------------------------------------ C5
\* The broker of the claim: open with no fill on the first max_replacements calls,
\* filled in full on the next.
ScriptedResponses(f) ==
    /\ Len(f.responses) = f.max_steps + 1
    /\ \A i \in 1..f.max_steps : f.responses[i] = <<"open", 0>>
    /\ f.responses[f.max_steps + 1][1] = "filled"

OpenSoFar(f) ==
    \A i \in 1..Len(f.responses) : f.responses[i] = <<"open", 0>>

LastSubmitted(f) ==
    CHOOSE id \in f.submitted : \A other \in f.submitted : other <= id

\* C5: against a broker that answers open/no fill max_replacements times and then
\* filled, place_with_ttl makes exactly max_replacements cancel_order calls, one for
\* each unfilled order and each before the next placement, and returns status filled
\* with the id of the last order placed.
C5_ReplaceLoop ==
    /\ (om.op = "place_with_ttl" /\ om.pc \in {"returned", "raised"} /\ ScriptedResponses(om)) =>
          /\ om.pc = "returned"
          /\ Len(om.cancel_calls) = om.max_steps
          /\ \A i \in 1..om.max_steps : broker_orders[om.cancel_calls[i]].status = "cancelled"
          /\ om_result.status = "filled"
          /\ om_result.order_id = LastSubmitted(om)
    /\ (om.op = "place_with_ttl" /\ om.pc = "place" /\ OpenSoFar(om)) =>
          /\ Len(om.cancel_calls) = om.place_calls
          /\ \A id \in om.submitted : \E i \in 1..Len(om.cancel_calls) : om.cancel_calls[i] = id

C5_Witness ==
    /\ om.op = "place_with_ttl"
    /\ om.pc = "returned"
    /\ ScriptedResponses(om)
    /\ om.max_steps = MAX_REPLACEMENTS
    /\ om.broker = "kalshi"

\* ------------------------------------------------------------------ C6
PcRank(pc) ==
    CASE pc = "quote" -> 0
      [] pc = "place" -> 1
      [] pc = "record" -> 2
      [] pc = "sleep" -> 3
      [] pc = "cancel" -> 4
      [] OTHER -> 5

\* Steps still ahead of a running call, at most.
Measure(f) ==
    IF f.pc \in {"idle", "returned", "raised"} THEN 0
    ELSE (f.max_steps - f.attempt) * 5 + (5 - PcRank(f.pc))

C6_Bounds ==
    /\ om.op = "place_with_ttl" => om.place_calls <= om.max_steps + 1
    /\ om.op = "close_with_limit" => om.place_calls <= om.max_steps + 1
    /\ (om.op # "idle" /\ om.remaining_qty = 0) => om.pc = "returned"
    /\ Measure(om) >= 0

\* C6: whatever the broker answers, place_with_ttl makes at most max_replacements + 1
\* and close_with_limit at most max_close_requotes + 1 place_order calls, every step
\* of a running call brings it closer to its end, and a call whose remaining
\* quantity has reached zero has returned.
C6_Terminates ==
    /\ []C6_Bounds
    /\ [][(om.pc \notin {"idle", "returned", "raised"}) => Measure(om') < Measure(om)]_vars

C6_Witness ==
    /\ om.op = "close_with_limit"
    /\ om.pc = "returned"
    /\ om.place_calls = om.max_steps + 1
    /\ om.remaining_qty = 0
    /\ om.max_steps = MAX_CLOSE_REQUOTES

\* ------------------------------------------------------------------ C7
\* C7: an exception of place_order or cancel_order on one attempt is taken as 'no
\* fill' and the loop goes on: a call ends with the error only when all its attempts
\* are used up.
C7_ErrorsContained ==
    om.pc = "raised" => LastAttempt(om.attempt, om.max_steps)

\* ------------------------------------------------------------------ C3
\* C3: every fill is in the fills store at most once, whether it came from the order
\* manager's logging or from reconciliation. An order fills once, on placement, so
\* two rows of one order are one fill recorded twice.
C3_FillRecordedOnce ==
    \A i \in 1..Len(db_fills) : \A j \in 1..Len(db_fills) :
        i # j => db_fills[i].order_id # db_fills[j].order_id

\* ------------------------------------------------------------------ C4
\* C4: in a tick whose can_trade() call answered false, maybe_open_trade never gets to
\* place_with_ttl and none of its steps submits an order or creates a position.
C4_NoEntryWhenRiskBlocks ==
    /\ [](eng.pc = "placing" => eng.risk_allows)
    /\ [][(eng.pc = "select" /\ ~eng.risk_allows) =>
             /\ positions' = positions
             /\ broker_orders' = broker_orders
             /\ om' = IdleFrame
             /\ eng'.pc \in {"select", "reconcile"}]_vars

C4_Witness ==
    /\ eng.pc = "select"
    /\ ~eng.risk_allows
    /\ eng.idx > 1
    /\ db_decisions.reason_code = "SKIP_RISK"
    /\ db_decisions.market_id = eng.selections[1].market_id

\* ------------------------------------------------------------------ C8
\* C8: a venue call that fails inside a tick (list_markets, a quote of the scan, a
\* placement or a cancel, the reconciliation fetch) never ends the engine loop.
C8_LoopSurvives ==
    task # "crashed"

\* ------------------------------------------------------------------ C9
\* C9: a position is closed at most once: after it is closed no operation submits
\* another closing order for it or stamps its status and closed_at again.
C9_ClosedOnce ==
    \A i \in 1..Len(positions) : positions[i].closes <= 1

\* ------------------------------------------------------------------ C10
\* C10: the qty of a position never exceeds the qty it was created with, across
\* ticks, reconciliations and manual actions.
C10_QtyNeverGrows ==
    \A i \in 1..Len(positions) : positions[i].qty <= positions[i].created_qty

\* ------------------------------------------------------------------ C11
RECURSIVE FilledTotal(_)
\* The quantity filled over the attempts of a call, from the broker's answers.
FilledTotal(responses) ==
    IF responses = <<>> THEN 0 ELSE Head(responses)[2] + FilledTotal(Tail(responses))

\* C11: when place_with_ttl has returned to maybe_open_trade, the next step creates a
\* Position exactly when some quantity was filled on any attempt of the call, and
\* the qty of that position is the total filled over all the attempts.
C11_PositionMatchesFills ==
    [][(eng.pc = "placing" /\ om.pc = "returned") =>
          IF FilledTotal(om.responses) > 0
          THEN /\ Len(positions') = Len(positions) + 1
               /\ positions'[Len(positions')].qty = FilledTotal(om.responses)
          ELSE positions' = positions]_vars

\* ------------------------------------------------------------------ C12
\* C12: record_trade has been called exactly once with the PnL of every closed
\* position, however it was closed, and never for a position that is open.
C12_RecordedOncePerClose ==
    \A i \in 1..Len(positions) :
        positions[i].recorded = (IF positions[i].status = "closed" THEN 1 ELSE 0)

\* ------------------------------------------------------------------ C13
\* The checks of can_trade in the order of the claim: whether each fails on the state
\* the call saw.
RiskChecks(p) ==
    << p.kill_switch,
       p.state.exposure_contracts >= MAX_EXPOSURE_CONTRACTS,
       p.state.exposure_dollars >= MAX_EXPOSURE_DOLLARS,
       p.state.active_positions >= MAX_CONCURRENT_POSITIONS,
       p.state.consecutive_losses >= MAX_CONSECUTIVE_LOSSES,
       Abs(p.state.event_pnl_pct) >= MAX_EVENT_LOSS_PCT,
       Abs(p.state.session_pnl_pct) >= MAX_SESSION_LOSS_PCT,
       p.in_cooldown >>

RiskReasons ==
    << "Kill switch active", "Exposure contracts limit reached",
       "Exposure dollars limit reached", "Max concurrent positions reached",
       "Loss streak limit reached", "Event loss cap reached",
       "Session loss cap reached", "Cooldown active" >>

\* C13: can_trade answers (false, reason of the first check that fails) with the
\* checks taken in the order kill switch, exposure contracts, exposure dollars,
\* concurrent positions, consecutive losses, event loss, session loss, cooldown, and
\* (true, "Ok") only when none of them fails.
C13_FirstFailingReason ==
    probe.fn = "can_trade" =>
        LET failing == {k \in 1..8 : RiskChecks(probe)[k]}
        IN  IF failing = {}
            THEN probe.allowed /\ probe.reason = "Ok"
            ELSE /\ ~probe.allowed
                 /\ probe.reason = RiskReasons[CHOOSE k \in failing : \A j \in failing : k <= j]

C13_Witness ==
    /\ probe.fn = "can_trade"
    /\ probe.reason = "Session loss cap reached"
    /\ probe.in_cooldown
    /\ probe.state.consecutive_losses = 0

\* ------------------------------------------------------------------ C14
RECURSIVE LosingStreak(_)
\* The number of losing trades at the end of a trade history.
LosingStreak(history) ==
    IF history = <<>> THEN 0
    ELSE IF history[Len(history)] >= 0 THEN 0
    ELSE 1 + LosingStreak(SubSeq(history, 1, Len(history) - 1))

\* No limit other than the loss streak applies to the state a can_trade call saw.
NoOtherLimit(p) ==
    \A k \in (1..8) \ {5} : ~RiskChecks(p)[k]

\* C14: consecutive_losses is the number of losing trades since the last winning one;
\* with max_consecutive_losses = 2, can_trade answers false while the last two trades
\* were losses, with the loss-streak reason when no earlier check fails, and after a
\* winning trade it answers true again when no other limit applies.
C14_LossStreak ==
    /\ risk.consecutive_losses = LosingStreak(risk.trade_history)
    /\ (probe.fn = "can_trade" /\ LosingStreak(probe.state.trade_history) >= 2) =>
          /\ ~probe.allowed
          /\ NoOtherLimit(probe) => probe.reason = "Loss streak limit reached"
    /\ (probe.fn = "can_trade" /\ LosingStreak(probe.state.trade_history) = 0
           /\ NoOtherLimit(probe)) => probe.allowed

C14_Witness ==
    /\ probe.fn = "can_trade"
    /\ probe.allowed
    /\ Len(probe.state.trade_history) = 3
    /\ probe.state.trade_history[1] < 0
    /\ probe.state.trade_history[2] < 0
    /\ probe.state.trade_history[3] > 0

\* ------------------------------------------------------------------ C15
\* C15: decide_exit returns the first that matches of take-profit, stop-loss, max-hold
\* time, resolution proximity, trailing stop, and HOLD if none does; when the PnL
\* meets both the take-profit and the stop-loss threshold it returns TAKE_PROFIT.
C15_ExitPriority ==
    probe.fn = "decide_exit" =>
        LET take_profit == probe.pnl_pct >= probe.cfg.take_profit_pct
            stop_loss == probe.pnl_pct <= -probe.cfg.stop_loss_pct
        IN  /\ take_profit => probe.action = "TAKE_PROFIT"
            /\ (~take_profit /\ stop_loss) => probe.action = "STOP_LOSS"
            /\ (~take_profit /\ ~stop_loss /\ probe.hold_expired) => probe.action = "TIME_EXIT"
            /\ (~take_profit /\ ~stop_loss /\ ~probe.hold_expired /\ probe.late) =>
                  probe.action = "LATE_EXIT"
            /\ (~take_profit /\ ~stop_loss /\ ~probe.hold_expired /\ ~probe.late) =>
                  probe.action \in {"TRAIL_STOP", "HOLD"}

C15_Witness ==
    /\ probe.fn = "decide_exit"
    /\ probe.pnl_pct >= probe.cfg.take_profit_pct
    /\ probe.pnl_pct <= -probe.cfg.stop_loss_pct
    /\ probe.hold_expired
    /\ probe.action = "TAKE_PROFIT"

\* ------------------------------------------------------------------ C16
\* C16: once the PnL of a position has reached trail_start_pct on an evaluation, every
\* later evaluation to which no higher-priority exit applies returns TRAIL_STOP when
\* the PnL is at or below max(previous trail stop, peak - trail_gap_pct), wherever
\* the PnL is relative to trail_start_pct, and HOLD otherwise.
C16_TrailingStopFires ==
    (/\ probe.fn = "decide_exit"
     /\ probe.reached_before
     /\ probe.pnl_pct < probe.cfg.take_profit_pct
     /\ probe.pnl_pct > -probe.cfg.stop_loss_pct
     /\ ~probe.hold_expired
     /\ ~probe.late) =>
        LET maintained == Max(probe.trailing_stop_pct,
                              probe.new_peak - probe.cfg.trail_gap_pct)
        IN  probe.action = (IF probe.pnl_pct <= maintained THEN "TRAIL_STOP" ELSE "HOLD")

\* ------------------------------------------------------------------ C17
\* C17: over the successive evaluations of a position the peak PnL never decreases,
\* and after each evaluation it is at least the PnL of that evaluation.
C17_PeakMonotone ==
    probe.fn = "decide_exit" =>
        /\ probe.new_peak >= probe.peak_pnl_pct
        /\ probe.new_peak >= probe.pnl_pct

C17_Witness ==
    /\ probe.fn = "decide_exit"
    /\ probe.n >= 2
    /\ probe.reached_before
    /\ probe.pnl_pct < probe.peak_pnl_pct
    /\ probe.new_peak = probe.peak_pnl_pct
    /\ probe.action = "HOLD"

\* ------------------------------------------------------------------ C18
\* C18: a trail stop that has been set never decreases from one decide_exit
\* evaluation to the next, whatever the prices and whatever value is carried, 0
\* included.
C18_TrailStopMonotone ==
    (probe.fn = "decide_exit" /\ probe.trailing_stop_pct # NoTrail) =>
        probe.trail_stop >= probe.trailing_stop_pct

\* ------------------------------------------------------------------ C19
\* The checks of the entry decision in the order of the claim: whether each matches
\* the inputs of the call.
EntryChecks(p) ==
    << ~p.qualifies,
       p.in_cooldown,
       ~p.risk_allows,
       Len(p.prices) < MOMENTUM_WINDOW,
       Momentum(p.prices) = "flat",
       ~EdgeOk(p.prices, p.edge_cost) >>

EntrySkipCodes ==
    << "SKIP_QUALIFY", "SKIP_COOLDOWN", "SKIP_RISK", "SKIP_HISTORY", "SKIP_MOMENTUM", "SKIP_EDGE" >>

\* C19: the entry decision takes its checks in the order qualification failure,
\* cooldown, risk veto, insufficient history, momentum at or below the threshold,
\* non-positive expected edge: the first that matches makes the decision a SKIP (with
\* that check's reason code, for the checks that have one), and ENTER, on side yes
\* for a positive momentum and no otherwise, is returned only when none matches.
C19_EntryCheckOrder ==
    probe.fn = "decide_entry" =>
        LET matching == {k \in 1..6 : EntryChecks(probe)[k]}
            first == CHOOSE k \in matching : \A j \in matching : k <= j
        IN  IF matching # {}
            THEN /\ probe.action = "SKIP"
                 /\ first > 1 => probe.reason_code = EntrySkipCodes[first]
            ELSE probe.action = "ENTER" =>
                    probe.side = (IF MomentumDiff(probe.prices) > 0 THEN "yes" ELSE "no")

\* ------------------------------------------------------------------ C20
\* C20: for a price history shorter than entry.momentum_window decide_entry returns
\* SKIP with reason code SKIP_HISTORY, whatever in_cooldown, risk_allows, the quotes
\* and the edge cost are.
C20_ShortHistorySkips ==
    (probe.fn = "decide_entry" /\ Len(probe.prices) < MOMENTUM_WINDOW) =>
        /\ probe.action = "SKIP"
        /\ probe.reason_code = "SKIP_HISTORY"

\* ------------------------------------ compute_realized_pnl_pct, called directly
\* The fills the function is fed: buys and sells of one market on either side, and a
\* fill with a field missing, which the loop skips.
PnlFills ==
    [action : {"buy", "sell"}, side : Sides, qty : 1..2, price : {4000, 5000}]
        \cup {[action |-> "none", side |-> "yes", qty |-> 0, price |-> 0]}

\* The loop body with the sell matched against the whole fill, whatever is held.
PnlStepUnbounded(acc, fill) ==
    LET position == acc.inventory[fill.side]
        new_qty == position.qty + fill.qty
        matched == fill.qty
        pnl_pct == ComputePnlPct(position.avg, fill.price, fill.side)
        sold == IF matched > 0 THEN [position EXCEPT !.qty = @ - matched] ELSE position
    IN  IF fill.action = "buy"
        THEN [acc EXCEPT !.inventory[fill.side] =
                            [qty |-> new_qty,
                             avg |-> IF new_qty > 0
                                     THEN RoundDiv(position.avg * position.qty + fill.price * fill.qty, new_qty)
                                     ELSE position.avg],
                         !.available = position.qty, !.matched = 0]
        ELSE IF fill.action = "sell"
        THEN [acc EXCEPT !.inventory[fill.side] =
                            IF fill.qty > matched THEN [qty |-> 0, avg |-> fill.price] ELSE sold,
                         !.realized_weighted = IF matched > 0 THEN @ + pnl_pct * matched ELSE @,
                         !.realized_qty = IF matched > 0 THEN @ + matched ELSE @,
                         !.available = position.qty, !.matched = matched]
        ELSE [acc EXCEPT !.available = 0, !.matched = 0]

\* compute_realized_pnl_pct lines 13-39: the loop body for one fill. The average cost
\* is kept to 0.0001 dollars; available and matched record what the fill met.
PnlStep(acc, fill) ==
    LET position == acc.inventory[fill.side]
        new_qty == position.qty + fill.qty
        matched == Min(position.qty, fill.qty)
        pnl_pct == ComputePnlPct(position.avg, fill.price, fill.side)
        sold == IF matched > 0 THEN [position EXCEPT !.qty = @ - matched] ELSE position
    IN  IF fill.action = "buy"
        THEN [acc EXCEPT !.inventory[fill.side] =
                            [qty |-> new_qty,
                             avg |-> IF new_qty > 0
                                     THEN RoundDiv(position.avg * position.qty + fill.price * fill.qty, new_qty)
                                     ELSE position.avg],
                         !.available = position.qty, !.matched = 0]
        ELSE IF fill.action = "sell"
        THEN [acc EXCEPT !.inventory[fill.side] =
                            IF fill.qty > matched THEN [qty |-> 0, avg |-> fill.price] ELSE sold,
                         !.realized_weighted = IF matched > 0 THEN @ + pnl_pct * matched ELSE @,
                         !.realized_qty = IF matched > 0 THEN @ + matched ELSE @,
                         !.available = position.qty, !.matched = matched]
        ELSE [acc EXCEPT !.available = 0, !.matched = 0]

\* compute_realized_pnl_pct lines 10-12: the function is entered.
PnlBegin ==
    /\ probe.fn = "none"
    /\ probe' = [fn |-> "compute_realized_pnl_pct", n |-> 0, fills |-> <<>>,
                 inventory |-> [s \in Sides |-> [qty |-> 0, avg |-> 0]],
                 realized_weighted |-> 0, realized_qty |-> 0, available |-> 0, matched |-> 0,
                 done |-> FALSE, result |-> 0]
    /\ UNCHANGED <<callRest, risk>>

\* One more fill of the iterable goes through the loop.
PnlFill ==
    /\ probe.fn = "compute_realized_pnl_pct"
    /\ ~probe.done
    /\ probe.n < MaxFills
    /\ \E fill \in PnlFills :
         probe' = [PnlStep(probe, fill) EXCEPT !.n = @ + 1, !.fills = Append(@, fill)]
    /\ UNCHANGED <<callRest, risk>>

\* compute_realized_pnl_pct lines 40-42: the iterable is exhausted.
PnlReturn ==
    /\ probe.fn = "compute_realized_pnl_pct"
    /\ ~probe.done
    /\ probe' = [probe EXCEPT
                   !.done = TRUE,
                   !.result = IF probe.realized_qty = 0 THEN 0
                              ELSE RoundDiv(probe.realized_weighted, probe.realized_qty)]
    /\ UNCHANGED <<callRest, risk>>

NextPnl ==
    \/ PnlBegin
    \/ PnlFill
    \/ PnlReturn

SpecPnl == InitPure /\ [][NextPnl]_vars

\* ---- _refresh_pnl over the fills table
\* storage.fetch_fills: SELECT ... FROM fills ORDER BY id DESC LIMIT 200, the newest
\* row first (the table stays far under the limit here).
RECURSIVE FetchFills(_)
FetchFills(fills) ==
    IF fills = <<>> THEN <<>> ELSE Append(FetchFills(Tail(fills)), Head(fills))

RECURSIVE PnlLoop(_, _)
\* compute_realized_pnl_pct lines 13-39: `for fill in fills`.
PnlLoop(acc, fills) ==
    IF fills = <<>> THEN acc ELSE PnlLoop(PnlStep(acc, Head(fills)), Tail(fills))

\* compute_realized_pnl_pct, in hundredths of a percent.
ComputeRealizedPnlPct(fills) ==
    LET acc == PnlLoop([inventory |-> [s \in Sides |-> [qty |-> 0, avg |-> 0]],
                        realized_weighted |-> 0, realized_qty |-> 0,
                        available |-> 0, matched |-> 0], fills)
    IN  IF acc.realized_qty = 0 THEN 0 ELSE RoundDiv(acc.realized_weighted, acc.realized_qty)

refreshRest == <<env_gate, environment_label, config, saved_config, kalshi_broker, order_manager,
                 venue_requests, last_place, kalshi_calls, om, om_result, broker_orders, db_orders,
                 engVars, risk>>

\* log_fill: one more fill is executed and recorded.
RefreshLogFill ==
    /\ Len(db_fills) < MaxFills
    /\ \E fill \in {f \in PnlFills : f.action # "none"} :
          db_fills' = LogFill(db_fills, Len(db_fills) + 1, "MKT-A", fill.action, fill.side,
                              fill.price, fill.qty)
    /\ probe' = NoProbe
    /\ UNCHANGED refreshRest

\* _refresh_pnl lines 261-262: state.realized_pnl_pct is set from fetch_fills().
RefreshPnl ==
    /\ probe.fn = "none"
    /\ probe' = [fn |-> "_refresh_pnl", n |-> 0,
                 realized_pnl_pct |-> ComputeRealizedPnlPct(FetchFills(db_fills))]
    /\ UNCHANGED <<refreshRest, db_fills>>

NextRefresh ==
    \/ RefreshLogFill
    \/ RefreshPnl

SpecRefresh == InitPure /\ [][NextRefresh]_vars

\* ---- KalshiClient.place_order and the retry loop of _request
\* KALSHI_MAX_RETRIES, by default.
MAX_RETRIES == 3

\* What one requests.request of the POST can end in, and whether the venue took the
\* order: a 2xx answer with its JSON body; a connection that never reached the venue;
\* a timeout or a lost response, before or after the venue accepted; a 429; a 5xx,
\* before or after the venue accepted; a 4xx from raise_for_status.
HttpOutcomes ==
    {[kind |-> "ok", accepted |-> TRUE], [kind |-> "refused", accepted |-> FALSE],
     [kind |-> "429", accepted |-> FALSE], [kind |-> "4xx", accepted |-> FALSE]}
        \cup [kind : {"timeout", "5xx"}, accepted : BOOLEAN]

\* place_order lines 222-224 and _request lines 102-108: the payload is valid, the
\* headers are built, the loop is about to start.
RequestBegin ==
    /\ probe.fn = "none"
    /\ probe' = [fn |-> "place_order", n |-> 0, answers |-> <<>>, orders_created |-> 0,
                 status |-> IF MAX_RETRIES > 0 THEN "running" ELSE "raised"]
    /\ UNCHANGED <<callRest, risk>>

\* _request lines 109-145: one turn of `for attempt in range(self.max_retries)`. The
\* same body is posted again; nothing in it tells the venue it is a repeat.
RequestAttempt ==
    /\ probe.fn = "place_order"
    /\ probe.status = "running"
    /\ \E out \in HttpOutcomes :
          probe' = [probe EXCEPT
                      !.answers = Append(@, out.kind),
                      !.orders_created = IF out.accepted THEN @ + 1 ELSE @,
                      !.n = IF out.kind = "ok" \/ probe.n >= MAX_RETRIES - 1 THEN @ ELSE @ + 1,
                      !.status = IF out.kind = "ok" THEN "returned"
                                 ELSE IF probe.n >= MAX_RETRIES - 1 THEN "raised"
                                 ELSE "running"]
    /\ UNCHANGED <<callRest, risk>>

NextRequest ==
    \/ RequestBegin
    \/ RequestAttempt

SpecRequest == InitPure /\ [][NextRequest]_vars

\* C21: every ENTER decision of decide_entry carries a limit price between 0.01 and
\* 0.99 that lies inside the quoted spread of the chosen side (bid <= price <= ask).
C21_EntryPriceInsideSpread ==
    (probe.fn = "decide_entry" /\ probe.action = "ENTER") =>
        LET bid == IF probe.side = "yes" THEN probe.snapshot.bid ELSE NoBid(probe.snapshot)
            ask == IF probe.side = "yes" THEN probe.snapshot.ask ELSE NoAsk(probe.snapshot)
        IN  /\ MIN_PRICE <= probe.price /\ probe.price <= MAX_PRICE
            /\ bid <= probe.price /\ probe.price <= ask

\* The fills of one side that a finished call was fed, by action.
PnlPrices(action, side) ==
    {probe.fills[i].price : i \in {i \in DOMAIN probe.fills :
                                      probe.fills[i].action = action /\ probe.fills[i].side = side}}

PhaseRank(pc) ==
    CASE pc = "reconcile" -> 1
      [] pc = "scan" -> 2
      [] pc \in {"update", "closing"} -> 3
      [] pc \in {"open", "select", "placing"} -> 4
      [] OTHER -> 5

\* C23: inside a tick the phases run in the order reconciliation, market scoring, exit
\* evaluation, entry evaluation, publish, and the next tick begins only after the tick
\* before it has published.
C23_TickPhaseOrder ==
    [][/\ (ticks' = ticks /\ eng.pc \notin {"none", "head"} /\ eng'.pc \notin {"none", "head"})
            => PhaseRank(eng'.pc) >= PhaseRank(eng.pc)
       /\ ticks' = ticks + 1 => eng.pc \in {"head", "sleep"}]_vars

\* C24: when POST /bot/stop halts the engine inside an order attempt, every order the
\* attempt has submitted is filled or cancelled at the broker: none is left open.
C24_StopAtSafeBoundary ==
    [][(/\ task = "alive" /\ task' = "none" /\ killed' = killed
        /\ eng.pc \in {"placing", "closing"})
          => \A id \in om.submitted : broker_orders'[id].status # "open"]_vars

\* C25: when the kill switch is engaged the loop halts (running false, killed true),
\* and once the broker has listed its open orders a cancel is attempted for every one
\* of them, a failed cancel not ending the attempts for the others.
C25_KillCancelsAll ==
    [][(~killed /\ killed') =>
          LET ids == OpenOrderIds(Broker(config))
              tried == {j \in 1..Len(ids) :
                           broker_orders'[ids[j]].cancels > broker_orders[ids[j]].cancels}
          IN  /\ ~running'
              /\ tried # {} => tried = 1..Len(ids)]_vars

\* C26: once the kill switch has been engaged, no entry order is submitted: the engine
\* is never again at the place_order call of an entry.
C26_NoEntryAfterKill ==
    kill_engaged => ~(eng.pc = "placing" /\ om.pc = "record" /\ om.op = "place_with_ttl")

\* C27: while a tick is in progress, a control-surface request served at its suspension
\* point changes no MarketState entry, no Position record, not the RiskState and not
\* the order manager.
C27_HandlersOnlyRead ==
    [][(/\ task = "alive"
        /\ eng.pc \notin {"none", "head", "sleep"}
        /\ handler_calls' # handler_calls)
          => UNCHANGED <<market_state, positions, risk, order_manager>>]_vars

\* C28: POST /bot/dryrun submits no order and leaves the market state (price window,
\* update counter, last snapshot), the last scan, the positions and the risk state as
\* they were.
C28_DryRunNoEffect ==
    [][DryRun => UNCHANGED <<broker_orders, market_state, last_scan, positions, risk>>]_vars

\* The three live-trading switches of a config: live mode, the enable flag, the exact
\* confirmation string.
SwitchesOn(cfg) ==
    /\ cfg.trading_mode = "live"
    /\ cfg.live_trading_enabled
    /\ cfg.live_confirm = LIVE_CONFIRM

\* C29: with any live-trading switch off, an order submitted by the engine or by a
\* manual close goes to the paper broker, and entries go on in paper: maybe_open_trade
\* gives up only for want of a scan, of a qualifying market or of trades left.
C29_PaperWhenSwitchOff ==
    [][~SwitchesOn(config) =>
         /\ Len(broker_orders') > Len(broker_orders)
               => broker_orders'[Len(broker_orders')].broker = "paper"
         /\ (eng.pc = "open" /\ eng'.pc = "reconcile")
               => \/ ~last_scan.present
                  \/ trades_executed >= MAX_TRADES_PER_EVENT
                  \/ \A i \in 1..Len(last_scan.markets) : ~last_scan.markets[i].qualifies]_vars

\* C30: a POST /config asking for trading_mode LIVE while live_trading_enabled is false,
\* or the confirmation is not the exact string, or the venue environment is not 'live',
\* is answered with an error and leaves the config, the risk manager, the venue
\* broker's gate fields, the order manager and the saved config file as they were.
C30_RejectedConfigUnchanged ==
    (/\ probe.fn = "update_config"
     /\ probe.p_mode = "live"
     /\ \/ ~probe.before.config.live_trading_enabled
        \/ (IF probe.p_confirm = "keep" THEN probe.before.config.live_confirm
                                        ELSE probe.p_confirm) # LIVE_CONFIRM
        \/ environment_label # "live")
      => /\ probe.status = 400
         /\ probe.before = [config |-> config, saved_config |-> saved_config,
                            kalshi_broker |-> kalshi_broker,
                            order_manager |-> order_manager, risk |-> risk]

\* C30: a request for live mode with the right confirmation was refused on a server
\* whose deployment flag is off, after an earlier update had been applied.
C30_Witness ==
    /\ probe.fn = "update_config"
    /\ probe.p_mode = "live"
    /\ probe.p_confirm = LIVE_CONFIRM
    /\ ~config.live_trading_enabled
    /\ probe.status = 400
    /\ config.trading_mode = "paper"
    /\ config.kill_switch

\* C31: when maybe_open_trade handles a selection, the entry order is placed exactly
\* when the decision is ENTER and the advisory is not a veto with confidence above 0.7:
\* a missing, failing or not vetoing advisory changes nothing, and no advisory makes an
\* order out of a decision that is not ENTER.
C31_AdvisorOnlyBlocks ==
    [][(/\ eng.pc = "select"
        /\ eng.idx <= Len(eng.selections)
        /\ eng.selections[eng.idx].market_id \notin eng.held)
          => LET advisory == db_decisions'.advisory
                 blocked == advisory.present /\ advisory.veto /\ advisory.confidence > 70
             IN  (eng'.pc = "placing" /\ om'.op = "place_with_ttl")
                    <=> (db_decisions'.action = "ENTER" /\ ~blocked)]_vars

\* C31: an ENTER decision was recorded with a veto of confidence 0.9 and the loop went
\* on to the next selection without an order.
C31_Witness ==
    /\ eng.pc = "select"
    /\ eng.idx = 2
    /\ db_decisions.action = "ENTER"
    /\ db_decisions.advisory.veto
    /\ db_decisions.advisory.confidence = 90
    /\ om.op = "idle"
    /\ broker_orders = <<>>

\* C32: an order attempt whose refreshed quote is invalid or missing submits nothing:
\* place_with_ttl and close_with_limit add no order at the broker and send no request
\* to the venue for that attempt.
C32_NoOrderOnInvalidQuote ==
    [][(om.pc = "place" /\ om.quote.kind # "valid")
          => /\ Len(broker_orders') = Len(broker_orders)
             /\ venue_requests' = venue_requests]_vars

\* C33: every order the running call has submitted, save the one whose response is
\* being recorded, is in the orders store, and its fill, if it had one, is in the fills
\* store: both are written before the cancel, the wait and the next attempt.
C33_AttemptRecordedFirst ==
    \A id \in om.submitted :
        \/ om.pc = "record" /\ id = om.order_id
        \/ /\ id \in DOMAIN db_orders
           /\ broker_orders[id].filled_qty > 0
                 => \E i \in 1..Len(db_fills) :
                       /\ db_fills[i].order_id = id
                       /\ db_fills[i].qty = broker_orders[id].filled_qty

\* A second attempt of close_with_limit is about to be placed after a first one that
\* filled in part.
C33_Witness ==
    /\ om.op = "close_with_limit" /\ om.pc = "place" /\ om.attempt = 1
    /\ \E id \in om.submitted :
          /\ broker_orders[id].filled_qty = 1 /\ broker_orders[id].qty = 2
          /\ id \in DOMAIN db_orders
          /\ \E i \in 1..Len(db_fills) : db_fills[i].order_id = id

\* C34: every order close_with_limit submits on attempt k is priced step_pct * k
\* percent beyond the passive price (under the bid for yes, over the ask for no),
\* whatever the refresh of that attempt returned.
C34_CloseWalk ==
    [][(om.op = "close_with_limit" /\ om.pc = "place"
            /\ Len(broker_orders') > Len(broker_orders))
          => LET base == IF om.side = "yes" THEN MarketQuote.bid ELSE MarketQuote.ask
                 step == WalkStep(base, om.step_pct, om.attempt)
             IN  broker_orders'[Len(broker_orders')].price =
                    IF om.side = "yes" THEN base - step ELSE base + step]_vars

\* C35: at most one run_bot task is alive, the one in state.task included.
C35_OneLoop ==
    (IF task = "alive" THEN 1 ELSE 0) + orphans <= 1

\* C36: a position goes from open to closed only when its closing orders filled its
\* whole quantity: close_with_limit returned with nothing remaining, or the order of
\* the manual close came back filled for the position's quantity.
C36_ClosedOnlyOnFullFill ==
    [][\A i \in 1..Min(Len(positions), Len(positions')) :
          (positions[i].status = "open" /\ positions'[i].status = "closed")
             => \/ /\ eng.pc = "closing" /\ eng.idx = i
                   /\ om.pc = "returned" /\ om.remaining_qty = 0
                \/ /\ Len(broker_orders') > Len(broker_orders)
                   /\ broker_orders'[Len(broker_orders')].filled_qty = positions[i].qty]_vars

\* C37: the quantity of the open positions is at most max_exposure_contracts, their
\* number at most max_concurrent_positions, and trades_executed at most
\* max_trades_per_event.
C37_LimitsHold ==
    /\ ExposureQty(OpenPositions) <= MAX_EXPOSURE_CONTRACTS
    /\ Len(OpenPositions) <= MAX_CONCURRENT_POSITIONS
    /\ trades_executed <= MAX_TRADES_PER_EVENT

\* C38: the realized PnL _refresh_pnl publishes is compute_realized_pnl_pct of the
\* recorded fills taken in the order they were executed, oldest first.
C38_PublishedPnl ==
    probe.fn = "_refresh_pnl" => probe.realized_pnl_pct = ComputeRealizedPnlPct(db_fills)

\* C39: can_trade answers with the event loss cap or the session loss cap only when
\* the matching cumulative PnL is a loss at least as large as the cap.
C39_CapsOnlyOnLoss ==
    probe.fn = "can_trade" =>
        /\ probe.reason = "Event loss cap reached"
              => probe.state.event_pnl_pct <= -MAX_EVENT_LOSS_PCT
        /\ probe.reason = "Session loss cap reached"
              => probe.state.session_pnl_pct <= -MAX_SESSION_LOSS_PCT

\* C40: one place_order call of the venue client makes at most max_retries HTTP
\* attempts and creates at most one order at the venue.
C40_OneOrderPerCall ==
    probe.fn = "place_order" =>
        /\ Len(probe.answers) <= MAX_RETRIES
        /\ probe.orders_created <= 1
====
